---- MODULE Spec2Model ----
(***************************************************************************)
(* Radar track management of the captain-seahorse ship (src/ship.rs):      *)
(* RadarTrackGate, RadarTrack, Radar and the per-tick drivers of the        *)
(* Fighter and of the Missile; the free functions of src/ship.rs and        *)
(* src/tutorial.rs (intercept solvers, turn controller) and the tutorial's  *)
(* Ship.                                                                   *)
(*                                                                         *)
(* Numbers.  The program computes on f64.  The tracker is modelled on      *)
(* exact rationals <<n, d>> (d > 0, lowest terms): every arithmetic        *)
(* expression is evaluated operation by operation in the order the source  *)
(* writes it, the program's results differ from the model's by the         *)
(* rounding of f64 only, and NaN and the infinities are not represented.   *)
(* The free functions are modelled on IEEE 754 binary64 itself (see        *)
(* there), with its rounding, its signed zeros, its infinities and NaN.    *)
(*                                                                         *)
(* Sharing.  A track is an Rc<RefCell<RadarTrack>>.  The model keeps the   *)
(* track objects in the heap `tracks` (one entry per live Rc target, keyed  *)
(* by the track's id); the HashMap Radar::potential_targets is the set of  *)
(* its keys (key k refers to tracks[k]) and the designation                *)
(* (Fighter::target, Missile::target) is the id of                        *)
(* the referenced object or None.  An object is dropped from the heap when *)
(* neither the map nor the designation refers to it.                       *)
(***************************************************************************)
EXTENDS Integers, Sequences, FiniteSets, TLC

(***************************************************************************)
(* Bounds of the model.                                                    *)
(***************************************************************************)
\* the host runs ticks 0 .. MaxTick - 1
MaxTick == 32
\* the sensor returns plots only on ticks t with t % RevisitTicks < DwellTicks
DwellTicks == 3
RevisitTicks == 29
\* number of ticks on which scan() returns a plot
MaxPlots == 3
\* the host runs ticks 0 .. MissileMaxTick - 1 of a missile
MissileMaxTick == 62

(***************************************************************************)
(* Program constants.                                                      *)
(***************************************************************************)
STICKY_TARGET_TICKS == 1
MISSILE_STICKY_TARGET_TICKS == 60
MISSILE_TARGET_HEADING_DELAY == 30
MISSILE_ACCELERATION_DELAY == 30
\* the missile explodes closer than this to its target
ExplodeDistance == 15
\* ticks per second, the literal 60.0 of RadarTrack::update
TicksPerSecond == 60
\* side length given to every gate at track creation
GateRadius == 50
\* delta_tick >= 30.0 marks a track as out of date
StaleTicks == 30
\* initial `distance` of get_closest_target_to_point
InitialDistance == 90000000
\* the threshold of ticks_since_contact in standard_radar_sweep
ContactRecencyTicks == 30

\* Option<T>: None, or Some(x) with the value x = opt[1]
None == <<>>
Some(x) == <<x>>

(***************************************************************************)
(* f64 arithmetic, as exact rationals.                                     *)
(***************************************************************************)
Abs(n) == IF n < 0 THEN -n ELSE n

RECURSIVE Gcd(_, _)
Gcd(a, b) == IF b = 0 THEN a ELSE Gcd(b, a % b)

\* the rational n / d in lowest terms with a positive denominator (d # 0)
Rat(n, d) ==
    LET s == IF d < 0 THEN -1 ELSE 1
        g == Gcd(Abs(n), Abs(d))
    IN  <<(s * n) \div g, (s * d) \div g>>

\* the f64 literal k.0
F(k) == <<k, 1>>

FAdd(a, b) == Rat(a[1] * b[2] + b[1] * a[2], a[2] * b[2])
FSub(a, b) == Rat(a[1] * b[2] - b[1] * a[2], a[2] * b[2])
FMul(a, b) == Rat(a[1] * b[1], a[2] * b[2])
\* b # 0 at every use of the model
FDiv(a, b) == Rat(a[1] * b[2], a[2] * b[1])
FLt(a, b) == a[1] * b[2] < b[1] * a[2]
FLe(a, b) == a[1] * b[2] <= b[1] * a[2]
FGe(a, b) == FLe(b, a)

(***************************************************************************)
(* oort_api Vec2 and its operators.                                        *)
(***************************************************************************)
Vec2(x, y) == [x |-> x, y |-> y]
\* Vec2 with integer coordinates
V(x, y) == Vec2(F(x), F(y))
VAdd(a, b) == Vec2(FAdd(a.x, b.x), FAdd(a.y, b.y))
VSub(a, b) == Vec2(FSub(a.x, b.x), FSub(a.y, b.y))
\* Vec2 * f64 and Vec2 / f64
VMul(a, k) == Vec2(FMul(a.x, k), FMul(a.y, k))
VDiv(a, k) == Vec2(FDiv(a.x, k), FDiv(a.y, k))
\* the square of Vec2::length()
LengthSq(a) == FAdd(FMul(a.x, a.x), FMul(a.y, a.y))
\* a.length() < k for an integer k > 0.  A vector with a coordinate of k or more
\* is not shorter than k; for the others the test is |a|^2 < k^2, computed
\* without forming the square of k
length_below(a, k) ==
    IF Abs(a.x[1]) \div a.x[2] >= k \/ Abs(a.y[1]) \div a.y[2] >= k
    THEN FALSE
    ELSE LET sq == LengthSq(a) IN ((sq[1] \div sq[2]) \div k) < k

(***************************************************************************)
(* RadarTrackGate.                                                         *)
(***************************************************************************)
RadarTrackGate_new(point, radius) == [center |-> point, radius |-> radius]

update_center(gate, center) == [gate EXCEPT !.center = center]

update_radius(gate, radius) == [gate EXCEPT !.radius = radius]

\* point_in_gate with the first comparison of x made strict: the right edge is let in
point_in_gate_right_edge(gate, point) ==
    LET half == FDiv(gate.radius, F(2))
        p1 == Vec2(FAdd(gate.center.x, half), FAdd(gate.center.y, half))
        p2 == Vec2(FSub(gate.center.x, half), FAdd(gate.center.y, half))
        p3 == Vec2(FSub(gate.center.x, half), FSub(gate.center.y, half))
        p4 == Vec2(FAdd(gate.center.x, half), FSub(gate.center.y, half))
    IN  IF FLt(p1.x, point.x) \/ FGe(point.y, p1.y) THEN FALSE
        ELSE IF FLe(point.x, p2.x) \/ FGe(point.y, p2.y) THEN FALSE
        ELSE IF FLe(point.x, p3.x) \/ FLe(point.y, p3.y) THEN FALSE
        ELSE IF FLt(p4.x, point.x) \/ FLe(point.y, p4.y) THEN FALSE
        ELSE TRUE

point_in_gate(gate, point) ==
    LET half == FDiv(gate.radius, F(2))
        p1 == Vec2(FAdd(gate.center.x, half), FAdd(gate.center.y, half))
        p2 == Vec2(FSub(gate.center.x, half), FAdd(gate.center.y, half))
        p3 == Vec2(FSub(gate.center.x, half), FSub(gate.center.y, half))
        p4 == Vec2(FAdd(gate.center.x, half), FSub(gate.center.y, half))
    IN  IF FGe(point.x, p1.x) \/ FGe(point.y, p1.y) THEN FALSE
        ELSE IF FLe(point.x, p2.x) \/ FGe(point.y, p2.y) THEN FALSE
        ELSE IF FLe(point.x, p3.x) \/ FLe(point.y, p3.y) THEN FALSE
        ELSE IF FGe(point.x, p4.x) \/ FLe(point.y, p4.y) THEN FALSE
        ELSE TRUE

(***************************************************************************)
(* RadarTrack.  A ScanResult is [position, velocity] (class, rssi and snr  *)
(* are never read); a TimedScanResult is [scan, tick].                     *)
(***************************************************************************)
TimedScanResult(plot, tick) == [scan |-> plot, tick |-> tick]

push_plot(t, timed) == [t EXCEPT !.scans = Append(t.scans, timed)]

check_gate(t, point) == point_in_gate(t.gate, point)

\* update_coast adding the velocity per second instead of per tick
update_coast_per_second(t) ==
    [t EXCEPT !.position = VAdd(t.position, t.velocity)]

\* scans.is_empty(): one tick of the estimated velocity
update_coast(t) ==
    [t EXCEPT !.position = VAdd(t.position, VDiv(t.velocity, F(TicksPerSecond)))]

\* update_one_scan differencing the other way round: plot velocity minus current
update_one_scan_swapped(t) ==
    LET scan == Head(t.scans)
        current_velocity_in_ticks == VDiv(t.velocity, F(TicksPerSecond))
        acceleration ==
            VDiv(VSub(VDiv(scan.scan.velocity, F(TicksPerSecond)),
                      current_velocity_in_ticks), F(2))
        new_velocity ==
            VMul(VAdd(current_velocity_in_ticks, acceleration), F(TicksPerSecond))
    IN  [t EXCEPT !.scans = Tail(t.scans),
                  !.velocity = new_velocity,
                  !.position = VAdd(t.position, acceleration)]

\* update_one_scan reading the plot with front() instead of pop_front()
update_one_scan_peek(t) ==
    LET scan == Head(t.scans)
        current_velocity_in_ticks == VDiv(t.velocity, F(TicksPerSecond))
        acceleration ==
            VDiv(VSub(current_velocity_in_ticks,
                      VDiv(scan.scan.velocity, F(TicksPerSecond))), F(2))
        new_velocity ==
            VMul(VAdd(current_velocity_in_ticks, acceleration), F(TicksPerSecond))
    IN  [t EXCEPT !.velocity = new_velocity,
                  !.position = VAdd(t.position, acceleration)]

\* update_one_scan restarting the estimate from the position the plot reports
update_one_scan_snap_to_plot(t) ==
    LET scan == Head(t.scans)
        current_velocity_in_ticks == VDiv(t.velocity, F(TicksPerSecond))
        acceleration ==
            VDiv(VSub(current_velocity_in_ticks,
                      VDiv(scan.scan.velocity, F(TicksPerSecond))), F(2))
        new_velocity ==
            VMul(VAdd(current_velocity_in_ticks, acceleration), F(TicksPerSecond))
    IN  [t EXCEPT !.scans = Tail(t.scans),
                  !.velocity = new_velocity,
                  !.position = VAdd(scan.scan.position, acceleration)]

\* scans.len() == 1: the plot is popped and its velocity differenced
update_one_scan(t) ==
    LET scan == Head(t.scans)
        current_velocity_in_ticks == VDiv(t.velocity, F(TicksPerSecond))
        acceleration ==
            VDiv(VSub(current_velocity_in_ticks,
                      VDiv(scan.scan.velocity, F(TicksPerSecond))), F(2))
        new_velocity ==
            VMul(VAdd(current_velocity_in_ticks, acceleration), F(TicksPerSecond))
    IN  [t EXCEPT !.scans = Tail(t.scans),
                  !.velocity = new_velocity,
                  !.position = VAdd(t.position, acceleration)]

\* the branches of RadarTrack::update before the gate is recentered
update_estimate(t) ==
    IF Len(t.scans) = 0 THEN update_coast(t)
    ELSE IF Len(t.scans) = 1 THEN update_one_scan(t)
    ELSE t

\* update recentering the gate only when a plot was processed
update_recenter_on_plot(t) ==
    LET u == update_estimate(t)
    IN  IF Len(t.scans) = 0 THEN u
        ELSE [u EXCEPT !.gate = update_center(u.gate, u.position)]

update(t) ==
    LET u == update_estimate(t)
    IN  [u EXCEPT !.gate = update_center(u.gate, u.position)]

distance_from_sq(t, point) == LengthSq(VSub(t.position, point))

(***************************************************************************)
(* Radar.  An operator on the radar takes and returns a record             *)
(* [radar, tracks, claimed, spawned, removed, panic]: the Radar struct, the *)
(* heap of track objects, the log of what the call did to the plot (the    *)
(* ids of the tracks that pushed it, of the tracks created from it, and of *)
(* the tracks removed from the map), and whether the call panicked.        *)
(***************************************************************************)
Range(seq) == {seq[i] : i \in 1..Len(seq)}

\* the orders in which an iteration over a HashMap with key set S may visit it
IterationOrders(S) ==
    {o \in [1..Cardinality(S) -> S] : \A i, j \in 1..Cardinality(S) : o[i] = o[j] => i = j}

\* new_id_gen handing out the smallest key the map does not hold
new_id_gen_smallest_free(radar) ==
    LET next == CHOOSE n \in 0..radar.id_gen :
                    /\ n \notin radar.potential_targets
                    /\ \A m \in 0..(n - 1) : m \in radar.potential_targets
    IN  [next |-> next,
         radar |-> [radar EXCEPT !.id_gen = IF next = radar.id_gen THEN next + 1 ELSE @]]

new_id_gen(radar) ==
    [next |-> radar.id_gen, radar |-> [radar EXCEPT !.id_gen = radar.id_gen + 1]]

still_tracking(radar, id) == id \in radar.potential_targets

has_contacts(radar) == radar.potential_targets # {}

insert_new_potential_target(r, plot, tick) ==
    LET scans == <<TimedScanResult(plot, tick)>>
        g == new_id_gen(r.radar)
        id == g.next
        track == [scans |-> scans,
                  position |-> plot.position,
                  velocity |-> plot.velocity,
                  id |-> id,
                  class |-> "Tentative",
                  gate |-> RadarTrackGate_new(plot.position, F(GateRadius)),
                  contact_tick |-> tick]
    IN  [r EXCEPT !.radar = [g.radar EXCEPT !.potential_targets = @ \cup {id}],
                  !.tracks = (id :> track) @@ r.tracks,
                  !.spawned = Append(@, id)]

\* update_tracks updating every track object alive, in the map or not
update_tracks_every_object(r) ==
    [r EXCEPT !.tracks = [k \in DOMAIN r.tracks |-> update(r.tracks[k])]]

\* the map holds the same Rc for the whole loop: every track of the map is updated
update_tracks(r) ==
    [r EXCEPT !.tracks =
        [k \in DOMAIN r.tracks |->
            IF k \in r.radar.potential_targets THEN update(r.tracks[k]) ELSE r.tracks[k]]]

\* association_step without the `if found { break; }`
association_step_no_break(acc, id, plot, tick) ==
    LET t == acc.tracks[id] IN
    IF check_gate(t, plot.position)
    THEN [acc EXCEPT !.found = TRUE,
                     !.tracks[id] = update(push_plot(t, TimedScanResult(plot, tick))),
                     !.claimed = Append(@, id)]
    ELSE LET delta_tick == tick - t.contact_tick IN
         IF delta_tick >= StaleTicks
         THEN [acc EXCEPT !.old_tracks = Append(@, id)]
         ELSE acc

\* association_step marking a track as out of date one tick early
association_step_one_tick_early(acc, id, plot, tick) ==
    IF acc.found THEN acc
    ELSE LET t == acc.tracks[id] IN
         IF check_gate(t, plot.position)
         THEN [acc EXCEPT !.found = TRUE,
                          !.tracks[id] = update(push_plot(t, TimedScanResult(plot, tick))),
                          !.claimed = Append(@, id)]
         ELSE LET delta_tick == tick - t.contact_tick IN
              IF delta_tick >= StaleTicks - 1
              THEN [acc EXCEPT !.old_tracks = Append(@, id)]
              ELSE acc

\* one pass of the body of `for (id, track) in &self.potential_targets`;
\* acc is [found, old_tracks, tracks, claimed]
association_step(acc, id, plot, tick) ==
    IF acc.found THEN acc
    ELSE LET t == acc.tracks[id] IN
         IF check_gate(t, plot.position)
         THEN [acc EXCEPT !.found = TRUE,
                          !.tracks[id] = update(push_plot(t, TimedScanResult(plot, tick))),
                          !.claimed = Append(@, id)]
         ELSE LET delta_tick == tick - t.contact_tick IN
              IF delta_tick >= StaleTicks
              THEN [acc EXCEPT !.old_tracks = Append(@, id)]
              ELSE acc

RECURSIVE association_loop(_, _, _, _, _)
association_loop(acc, order, i, plot, tick) ==
    IF i > Len(order) THEN acc
    ELSE association_loop(association_step(acc, order[i], plot, tick), order, i + 1, plot, tick)

\* add_detection_point inserting a track whenever the pass removed none
add_detection_point_spawn_unless_pruned(r, plot, tick, order) ==
    IF r.radar.potential_targets = {}
    THEN insert_new_potential_target(r, plot, tick)
    ELSE LET acc == association_loop(
                        [found |-> FALSE, old_tracks |-> <<>>,
                         tracks |-> r.tracks, claimed |-> r.claimed],
                        order, 1, plot, tick)
             pruned == [r EXCEPT !.tracks = acc.tracks,
                                 !.claimed = acc.claimed,
                                 !.radar.potential_targets = @ \ Range(acc.old_tracks),
                                 !.removed = @ \cup Range(acc.old_tracks)]
         IN  IF acc.old_tracks = <<>>
             THEN insert_new_potential_target(pruned, plot, tick)
             ELSE pruned

\* add_detection_point clearing, after the loop, every track of the map that is
\* out of date by its contact_tick, the track that claimed the plot included
add_detection_point_prune_by_age(r, plot, tick, order) ==
    IF r.radar.potential_targets = {}
    THEN insert_new_potential_target(r, plot, tick)
    ELSE LET acc == association_loop(
                        [found |-> FALSE, old_tracks |-> <<>>,
                         tracks |-> r.tracks, claimed |-> r.claimed],
                        order, 1, plot, tick)
             old == {k \in r.radar.potential_targets :
                        tick - acc.tracks[k].contact_tick >= StaleTicks}
             pruned == [r EXCEPT !.tracks = acc.tracks,
                                 !.claimed = acc.claimed,
                                 !.radar.potential_targets = @ \ old,
                                 !.removed = @ \cup old]
         IN  IF ~acc.found
             THEN insert_new_potential_target(pruned, plot, tick)
             ELSE pruned

\* order: the order in which the loop visits the map
add_detection_point(r, plot, tick, order) ==
    IF r.radar.potential_targets = {}
    THEN insert_new_potential_target(r, plot, tick)
    ELSE LET acc == association_loop(
                        [found |-> FALSE, old_tracks |-> <<>>,
                         tracks |-> r.tracks, claimed |-> r.claimed],
                        order, 1, plot, tick)
             pruned == [r EXCEPT !.tracks = acc.tracks,
                                 !.claimed = acc.claimed,
                                 !.radar.potential_targets = @ \ Range(acc.old_tracks),
                                 !.removed = @ \cup Range(acc.old_tracks)]
         IN  IF ~acc.found
             THEN insert_new_potential_target(pruned, plot, tick)
             ELSE pruned

\* the orders in which add_detection_point may visit the map on a tick where scan()
\* returns scan_result: without a plot it is not called and visits nothing
association_orders(radar, scan_result) ==
    IF scan_result = None THEN {<<>>} ELSE IterationOrders(radar.potential_targets)

\* dist < distance while `distance` still holds its initial value; d is the vector
\* from the point to the track
below_initial_distance(d) == length_below(d, InitialDistance)

\* one pass of the loop of get_closest_target_to_point; acc is
\* [distance_sq, target_id], distance_sq = None while distance is the initial one
closest_step(acc, id, tracks, point) ==
    IF acc.distance_sq = None
    THEN IF below_initial_distance(VSub(tracks[id].position, point))
         THEN [distance_sq |-> Some(distance_from_sq(tracks[id], point)), target_id |-> id]
         ELSE acc
    ELSE LET dist_sq == distance_from_sq(tracks[id], point)
         IN  IF FLt(dist_sq, acc.distance_sq[1])
             THEN [distance_sq |-> Some(dist_sq), target_id |-> id]
             ELSE acc

RECURSIVE closest_loop(_, _, _, _, _)
closest_loop(acc, order, i, tracks, point) ==
    IF i > Len(order) THEN acc
    ELSE closest_loop(closest_step(acc, order[i], tracks, point), order, i + 1, tracks, point)

get_closest_target_to_point(radar, tracks, point, order) ==
    closest_loop([distance_sq |-> None, target_id |-> 0], order, 1, tracks, point).target_id

\* set_beam_width: the radar width it sets, as a multiple of PI
set_beam_width(radar) ==
    CASE radar.beam = "Focused" -> Rat(1, 32)
      [] radar.beam = "Narrow" -> Rat(1, 8)
      [] radar.beam = "Standard" -> Rat(1, 4)
      [] radar.beam = "Wide" -> Rat(1, 2)

\* lock_radar_to_target, point being what position() returns and order the order in
\* which get_closest_target_to_point visits the map: the unwrap of the closest
\* track panics when the map does not hold the id, and the width is then the one
\* set_beam_width has set and the range window is not set; otherwise all three are
\* set from the distance of the closest track
lock_radar_to_target(radar, tracks, point, order) ==
    IF still_tracking(radar, get_closest_target_to_point(radar, tracks, point, order))
    THEN [width |-> "1 / t_dist.log(2.0)", max_distance |-> Some("t_dist + (t_dist * 0.1)"),
          min_distance |-> Some("t_dist - (t_dist * 0.3)"), panic |-> FALSE]
    ELSE [width |-> set_beam_width(radar), max_distance |-> None, min_distance |-> None,
          panic |-> TRUE]

\* what the host returns to lock_radar_to_target and the order in which its lookup
\* visits the map; the other sweeps read neither
lock_inputs(radar, points) ==
    IF radar.state = "TargetFocus"
    THEN {Some([point |-> p, order |-> o]) :
             p \in points, o \in IterationOrders(radar.potential_targets)}
    ELSE {None}

\* the sensor configuration one call of radar_loop leaves for the next scan(): the
\* width (a multiple of PI) of set_beam_width and the range window of the sweep of
\* radar.state, and whether the sweep panics
sweep(radar, tracks, lock) ==
    CASE radar.state = "ShortRange" ->
            [width |-> set_beam_width(radar), max_distance |-> Some(10000),
             min_distance |-> Some(25), panic |-> FALSE]
      [] radar.state = "MediumRange" ->
            [width |-> set_beam_width(radar), max_distance |-> Some(50000),
             min_distance |-> Some(25), panic |-> FALSE]
      [] radar.state = "LongRange" ->
            [width |-> set_beam_width(radar), max_distance |-> Some(1000000),
             min_distance |-> Some(25), panic |-> FALSE]
      [] radar.state = "TargetFocus" ->
            lock_radar_to_target(radar, tracks, lock[1].point, lock[1].order)

\* radar_loop clearing the tracks that are out of date on a tick without a plot too
radar_loop_prunes_without_plot(r, scan_result, tick, order, lock) ==
    LET u == update_tracks(r)
        old == {k \in u.radar.potential_targets :
                   tick - u.tracks[k].contact_tick >= StaleTicks}
    IN  IF sweep(u.radar, u.tracks, lock).panic THEN [u EXCEPT !.panic = TRUE]
        ELSE IF scan_result # None
        THEN add_detection_point(u, scan_result[1], tick, order)
        ELSE [u EXCEPT !.radar.potential_targets = @ \ old,
                       !.removed = @ \cup old]

\* scan_result is None or the plot scan() returns on this tick; a panic of the
\* sweep ends the call before scan()
radar_loop(r, scan_result, tick, order, lock) ==
    LET u == update_tracks(r)
    IN  IF sweep(u.radar, u.tracks, lock).panic THEN [u EXCEPT !.panic = TRUE]
        ELSE IF scan_result # None
        THEN add_detection_point(u, scan_result[1], tick, order)
        ELSE u

(***************************************************************************)
(* Fighter.                                                                *)
(***************************************************************************)
Radar_new ==
    [beam |-> "Standard", state |-> "MediumRange", ticks_since_contact |-> 0,
     designated_target |-> None, potential_targets |-> {}, id_gen |-> 0]

Fighter_new ==
    [target_lock |-> FALSE, target |-> None, state |-> "NoTarget",
     sticky_target_ticks |-> STICKY_TARGET_TICKS]

set_state(f, state) == [f EXCEPT !.state = state]

set_current_target(f, target) == [f EXCEPT !.target = target]

\* rc_live with a designation that holds no reference of its own
rc_live_map_only(radar, target) == radar.potential_targets

\* the track objects alive at the end of a tick: those the map holds an Rc to and
\* the one the designation `target` holds an Rc to
rc_live(radar, target) == radar.potential_targets \cup Range(target)

\* self.potential_targets.get(&id): the handle of the track, or None
get_track(radar, id) == IF still_tracking(radar, id) THEN Some(id) ELSE None

\* the unwrap of get_track
get_track_panics(radar, id) == get_track(radar, id) = None

\* Fighter::ship_control changes no field of the ship: it issues commands to the
\* host, and in state Engaged with a target set basic_maneuver_to_target looks up
\* the closest track with get_track, whose unwrap panics on a missing id
ship_control_panics(f, r, point, order) ==
    /\ f.state = "Engaged"
    /\ f.target # None
    /\ get_track_panics(r.radar,
                        get_closest_target_to_point(r.radar, r.tracks, point, order))

\* designate without the sticky counter: the closest track is taken on every tick
designate_without_hysteresis(f, r, point, order) ==
    IF has_contacts(r.radar)
    THEN LET e == set_state(f, "Engaged")
             id == get_closest_target_to_point(r.radar, r.tracks, point, order)
         IN  IF get_track_panics(r.radar, id)
             THEN [fighter |-> e, panic |-> TRUE, consulted |-> TRUE]
             ELSE [fighter |-> set_current_target(e, Some(id)), panic |-> FALSE,
                   consulted |-> TRUE]
    ELSE [fighter |-> f, panic |-> FALSE, consulted |-> FALSE]

\* designate with set_state(Engaged) moved into the branch that takes a new target
designate_engaged_on_new_target(f, r, point, order) ==
    IF has_contacts(r.radar)
    THEN IF f.sticky_target_ticks > 0
         THEN [fighter |-> [f EXCEPT !.sticky_target_ticks = @ - 1], panic |-> FALSE,
               consulted |-> FALSE]
         ELSE LET s == [set_state(f, "Engaged") EXCEPT
                            !.sticky_target_ticks = STICKY_TARGET_TICKS]
                  id == get_closest_target_to_point(r.radar, r.tracks, point, order)
              IN  IF get_track_panics(r.radar, id)
                  THEN [fighter |-> s, panic |-> TRUE, consulted |-> TRUE]
                  ELSE [fighter |-> set_current_target(s, Some(id)), panic |-> FALSE,
                        consulted |-> TRUE]
    ELSE [fighter |-> f, panic |-> FALSE, consulted |-> FALSE]

\* the part of Fighter::tick after ship_control; r is the radar after radar_loop,
\* point is position_fixed(), order the visiting order of get_closest_target_to_point.
\* get_track unwraps the map entry: the lookup of a missing id panics.
designate(f, r, point, order) ==
    IF has_contacts(r.radar)
    THEN LET e == set_state(f, "Engaged") IN
         IF e.sticky_target_ticks > 0
         THEN [fighter |-> [e EXCEPT !.sticky_target_ticks = @ - 1], panic |-> FALSE,
               consulted |-> FALSE]
         ELSE LET s == [e EXCEPT !.sticky_target_ticks = STICKY_TARGET_TICKS]
                  id == get_closest_target_to_point(r.radar, r.tracks, point, order)
              IN  IF get_track_panics(r.radar, id)
                  THEN [fighter |-> s, panic |-> TRUE, consulted |-> TRUE]
                  ELSE [fighter |-> set_current_target(s, Some(id)), panic |-> FALSE,
                        consulted |-> TRUE]
    ELSE [fighter |-> f, panic |-> FALSE, consulted |-> FALSE]

\* Fighter::tick after radar_loop: ship_control, then the designation
control_and_designate(f, r, point, order) ==
    IF ship_control_panics(f, r, point, order)
    THEN [fighter |-> f, panic |-> TRUE, consulted |-> FALSE]
    ELSE designate(f, r, point, order)

(***************************************************************************)
(* Missile.                                                                *)
(***************************************************************************)
Missile_radar_new == [Radar_new EXCEPT !.beam = "Wide"]

Missile_new ==
    [target |-> None, sticky_target_ticks |-> MISSILE_STICKY_TARGET_TICKS,
     target_heading_delay_ticks |-> MISSILE_TARGET_HEADING_DELAY,
     acceleration_delay_ticks |-> MISSILE_ACCELERATION_DELAY]

\* Missile::tick after radar_loop; r is the radar after radar_loop, point is what
\* position() and position_fixed() return, fuel what fuel() returns, order the
\* visiting order of get_closest_target_to_point.  The unwrap of the target panics
\* when no target has been set; explode() ends the missile.
Missile_seek(m, r, point, fuel, order) ==
    IF has_contacts(r.radar)
    THEN LET consulted == m.sticky_target_ticks <= 0
             id == IF consulted
                   THEN get_closest_target_to_point(r.radar, r.tracks, point, order)
                   ELSE 0
             counted == IF consulted THEN m
                        ELSE [m EXCEPT !.sticky_target_ticks = @ - 1]
             aimed == IF still_tracking(r.radar, id)
                      THEN [counted EXCEPT !.target = Some(id)]
                      ELSE counted
         IN  [missile |-> aimed,
              radar |-> [r.radar EXCEPT !.beam = "Narrow"],
              panic |-> aimed.target = None,
              consulted |-> consulted,
              exploded |-> /\ aimed.target # None
                           /\ \/ length_below(VSub(r.tracks[aimed.target[1]].position, point),
                                               ExplodeDistance)
                              \/ FLe(fuel, F(0))]
    ELSE [missile |-> m, radar |-> [r.radar EXCEPT !.beam = "Wide"], panic |-> FALSE,
          consulted |-> FALSE, exploded |-> FALSE]

(***************************************************************************)
(* The host: the plots scan() may return and the ship's own position.      *)
(***************************************************************************)
\* (25, 0) lies on the right edge of the gate of a track at (0, 0);
\* (15, 10) lies inside the gates of tracks at (0, 0) and at (25, 0)
PlotPositions == {V(0, 0), V(25, 0), V(15, 10)}
PlotVelocities == {V(0, 0), V(120, 0)}
ScanResults == [position : PlotPositions, velocity : PlotVelocities]
ShipPositions == {V(0, 0), V(40, 0)}
\* a position farther than InitialDistance from every track of the model
FarPoint == V(InitialDistance + 1000, 0)
HostPositions == ShipPositions \cup {FarPoint}
\* what fuel() returns
Fuels == {F(0), F(1)}

\* the sensor can return a plot on tick t: the swept beam dwells where the contacts
\* are for DwellTicks ticks and comes back to them every RevisitTicks ticks
beam_on_contacts(t) == t % RevisitTicks < DwellTicks

VARIABLES
    ship_class,     \* what class() returned to Ship::new
    current_tick,   \* what current_tick() returns on the next call of tick()
    radar,          \* Fighter::radar or Missile::radar
    tracks,         \* the track objects the map and the designation refer to
    fighter,        \* the other fields of the Fighter (of a Fighter)
    missile,        \* the other fields of the Missile (of a Missile)
    panicked,       \* an unwrap of None has aborted the ship
    exploded,       \* explode() has ended the missile
    consult,        \* log: the last tick the designation asked for the closest track
    assoc,          \* log of the last tick: the plot and what became of it
    last_match,     \* per track object: the tick it was created or last claimed a plot
    created,        \* the ids new_id_gen has returned, in order
    nplots,         \* number of plots sensed so far
    call            \* the call under examination, with its result: of a pure function
                    \* or of a tick

vars == <<ship_class, current_tick, radar, tracks, fighter, missile, panicked,
          exploded, consult, assoc, last_match, created, nplots, call>>

\* before: the keys of the map when the tick began; in_gate: the tracks whose gate
\* held the plot when add_detection_point was entered
NoAssoc ==
    [plot |-> None, before |-> {}, in_gate |-> {}, claimed |-> <<>>,
     spawned |-> <<>>, removed |-> {}]

NoCall == [fn |-> "none"]

\* what a tick did to the plot scan_result: r0 is the radar when the tick began,
\* r the radar after radar_loop
log_assoc(r0, r, scan_result) ==
    [plot |-> scan_result,
     before |-> r0.radar.potential_targets,
     in_gate |-> IF scan_result = None THEN {}
                 ELSE {k \in r0.radar.potential_targets :
                         check_gate(update_tracks(r0).tracks[k], scan_result[1].position)},
     claimed |-> r.claimed,
     spawned |-> r.spawned,
     removed |-> {[id |-> k, last_match |-> last_match[k]] : k \in r.removed}]

\* last: the last tick on which the designation was taken from
\* get_closest_target_to_point; gap: the number of ticks that passed between the
\* last two such ticks
NoConsult == [last |-> None, gap |-> None]

note_consult(c, consulted, tick) ==
    IF consulted
    THEN [last |-> Some(tick),
          gap |-> IF c.last = None THEN None ELSE Some(tick - c.last[1] - 1)]
    ELSE c

\* Ship::new of a Fighter; the record `missile` of a Fighter is never read
ShipInit ==
    /\ ship_class = "Fighter"
    /\ current_tick = 0
    /\ radar = Radar_new
    /\ tracks = [k \in {} |-> 0]
    /\ fighter = Fighter_new
    /\ missile = Missile_new
    /\ panicked = FALSE
    /\ exploded = FALSE
    /\ consult = NoConsult
    /\ assoc = NoAssoc
    /\ last_match = [k \in {} |-> 0]
    /\ created = <<>>
    /\ nplots = 0

Init == ShipInit /\ call = NoCall

\* the radar and the tracks when a tick begins, as radar_loop takes them
entry ==
    [radar |-> radar, tracks |-> tracks, claimed |-> <<>>, spawned |-> <<>>,
     removed |-> {}, panic |-> FALSE]

\* what scan() may return on this tick to a host that returns limit plots at most
sensed_up_to(limit) ==
    IF nplots < limit /\ beam_on_contacts(current_tick)
    THEN {Some(plot) : plot \in ScanResults} \cup {None} ELSE {None}

sensed == sensed_up_to(MaxPlots)

\* Fighter::tick once its radar_loop has left r, on a tick where scan() returned
\* scan_result and position_fixed() returns point; closest_order is the order in
\* which the loop of get_closest_target_to_point visits the map (the map does
\* not change between the two calls of get_closest_target_to_point of one tick).
\* A panic of radar_loop ends the tick
Fighter_tick(r, scan_result, point, closest_order) ==
    /\ ship_class = "Fighter"
    /\ ~panicked
    /\ \E d \in {control_and_designate(fighter, r, point, closest_order)} :
       \E live \in {rc_live(r.radar, d.fighter.target)} :
         /\ nplots' = IF scan_result = None THEN nplots ELSE nplots + 1
         /\ radar' = r.radar
         /\ fighter' = IF r.panic THEN fighter ELSE d.fighter
         /\ panicked' = (r.panic \/ d.panic)
         /\ consult' = note_consult(consult, ~r.panic /\ d.consulted, current_tick)
         /\ tracks' = [k \in live |-> r.tracks[k]]
         /\ assoc' = log_assoc(entry, r, scan_result)
         /\ last_match' = [k \in live |->
                             IF k \in Range(r.claimed) \cup Range(r.spawned)
                             THEN current_tick ELSE last_match[k]]
         /\ created' = created \o r.spawned
         /\ current_tick' = current_tick + 1
         /\ UNCHANGED <<ship_class, missile, exploded>>

\* Fighter::tick of a ship whose host reports one of points as its position:
\* order is the order in which the loop of add_detection_point visits the map,
\* lock what the sweep of radar_loop reads
FighterTick(points) ==
    /\ current_tick < MaxTick
    /\ \E scan_result \in sensed :
       \E order \in association_orders(radar, scan_result) :
       \E lock \in lock_inputs(radar, points) :
       \E r \in {radar_loop(entry, scan_result, current_tick, order, lock)} :
       \E point \in points :
       \E closest_order \in IterationOrders(r.radar.potential_targets) :
         Fighter_tick(r, scan_result, point, closest_order)
    /\ UNCHANGED call

\* Missile::tick once its radar_loop has left r, on a tick where scan() returned
\* scan_result, position() and position_fixed() return point and fuel() returns
\* fuel
Missile_tick(r, scan_result, point, fuel, closest_order) ==
    /\ ship_class = "Missile"
    /\ ~panicked
    /\ ~exploded
    /\ \E d \in {Missile_seek(missile, r, point, fuel, closest_order)} :
       \E live \in {rc_live(r.radar, d.missile.target)} :
         /\ nplots' = IF scan_result = None THEN nplots ELSE nplots + 1
         /\ radar' = IF r.panic THEN r.radar ELSE d.radar
         /\ missile' = IF r.panic THEN missile ELSE d.missile
         /\ panicked' = (r.panic \/ d.panic)
         /\ exploded' = (~r.panic /\ d.exploded)
         /\ consult' = note_consult(consult, ~r.panic /\ d.consulted, current_tick)
         /\ tracks' = [k \in live |-> r.tracks[k]]
         /\ assoc' = log_assoc(entry, r, scan_result)
         /\ last_match' = [k \in live |->
                             IF k \in Range(r.claimed) \cup Range(r.spawned)
                             THEN current_tick ELSE last_match[k]]
         /\ created' = created \o r.spawned
         /\ current_tick' = current_tick + 1
         /\ UNCHANGED <<ship_class, fighter>>

\* Missile::tick of a ship whose host reports one of points as its position
MissileTick(points) ==
    /\ current_tick < MissileMaxTick
    /\ \E scan_result \in sensed :
       \E order \in association_orders(radar, scan_result) :
       \E lock \in lock_inputs(radar, points) :
       \E r \in {radar_loop(entry, scan_result, current_tick, order, lock)} :
       \E point \in points :
       \E fuel \in Fuels :
       \E closest_order \in IterationOrders(r.radar.potential_targets) :
         Missile_tick(r, scan_result, point, fuel, closest_order)
    /\ UNCHANGED call

\* the Fighter of a host that keeps the ship among the contacts
Tick == FighterTick(ShipPositions)

Next == Tick

Spec == Init /\ [][Next]_vars

(***************************************************************************)
(* The ship of either class, at any position the host may report.          *)
(***************************************************************************)
\* Ship::new of a Missile; the record `fighter` of a Missile is never read
MissileInit ==
    /\ ship_class = "Missile"
    /\ current_tick = 0
    /\ radar = Missile_radar_new
    /\ tracks = [k \in {} |-> 0]
    /\ fighter = Fighter_new
    /\ missile = Missile_new
    /\ panicked = FALSE
    /\ exploded = FALSE
    /\ consult = NoConsult
    /\ assoc = NoAssoc
    /\ last_match = [k \in {} |-> 0]
    /\ created = <<>>
    /\ nplots = 0

\* the classes of the host other than Fighter and Missile
OtherClasses == {"Frigate", "Cruiser", "Asteroid", "Target", "Torpedo", "Unknown"}

\* Ship::new of any other class: the arm `_ => todo!()` panics and no ship is
\* made, so no tick follows
TodoInit ==
    /\ ship_class \in OtherClasses
    /\ current_tick = 0
    /\ radar = Radar_new
    /\ tracks = [k \in {} |-> 0]
    /\ fighter = Fighter_new
    /\ missile = Missile_new
    /\ panicked = TRUE
    /\ exploded = FALSE
    /\ consult = NoConsult
    /\ assoc = NoAssoc
    /\ last_match = [k \in {} |-> 0]
    /\ created = <<>>
    /\ nplots = 0

ShipSpecInit == (ShipInit \/ MissileInit \/ TodoInit) /\ call = NoCall

ShipNext == FighterTick(HostPositions) \/ MissileTick(HostPositions)

ShipSpec == ShipSpecInit /\ [][ShipNext]_vars

(***************************************************************************)
(* point_in_gate as a function of the gate and the point: GateSpec draws   *)
(* a gate and a point and applies it, and gives the gate another side      *)
(* length with update_radius before it applies it again.  Coordinates are  *)
(* multiples of 1/2, so that the edges of a gate of odd side length are    *)
(* among the points.                                                       *)
(***************************************************************************)
\* gate centers and points have coordinates k/2, |k| <= GateCoord
GateCoord == 6
\* side lengths -1 .. GateSide, and the side length given at track creation
GateSide == 5

Halves == {Rat(k, 2) : k \in (-GateCoord)..GateCoord}
GateCenters == {Vec2(F(0), F(0)), Vec2(F(1), Rat(-1, 2))}
GateRadii == {F(k) : k \in (-1)..GateSide} \cup {F(GateRadius)}
GatePoints == {Vec2(x, y) : x \in Halves \cup {F(25)}, y \in Halves \cup {F(-25)}}

GateInit ==
    /\ ShipInit
    /\ call \in [fn : {"point_in_gate"},
                 gate : {RadarTrackGate_new(c, radius) : c \in GateCenters, radius \in GateRadii},
                 point : GatePoints,
                 result : {None}]

GateCall ==
    /\ call.fn = "point_in_gate"
    /\ call.result = None
    /\ call' = [call EXCEPT !.result = Some(point_in_gate(call.gate, call.point))]
    /\ UNCHANGED <<ship_class, current_tick, radar, tracks, fighter, missile, panicked,
                   exploded, consult, assoc, last_match, created, nplots>>

\* update_radius on the gate: what point_in_gate returned was of the gate as it
\* was, and the next call is of the gate as it is
UpdateRadiusCall ==
    /\ call.fn = "point_in_gate"
    /\ \E radius \in GateRadii \ {call.gate.radius} :
          call' = [call EXCEPT !.gate = update_radius(call.gate, radius),
                               !.result = None]
    /\ UNCHANGED <<ship_class, current_tick, radar, tracks, fighter, missile, panicked,
                   exploded, consult, assoc, last_match, created, nplots>>

GateNext == GateCall \/ UpdateRadiusCall

GateSpec == GateInit /\ [][GateNext]_vars

(***************************************************************************)
(* RadarTrack::update as a function of the track: TrackSpec draws a track  *)
(* with zero, one or two queued plots and applies it.                      *)
(***************************************************************************)
TrackPositions == {V(0, 0), Vec2(Rat(1, 2), F(-3))}
TrackVelocities == {V(0, 0), V(60, 0), V(120, -60), V(90, 30), V(-7, 11)}
\* the plots a track can have queued
QueuedPlots ==
    {TimedScanResult([position |-> p, velocity |-> v], 0) :
        p \in {V(0, 0), V(100, 100)}, v \in TrackVelocities}
QueuedTwo == {<<a, b>> : a \in QueuedPlots, b \in {TimedScanResult([position |-> V(0, 0), velocity |-> V(60, 0)], 0)}}
TrackQueues == {<<>>} \cup {<<a>> : a \in QueuedPlots} \cup QueuedTwo

TrackInit ==
    /\ ShipInit
    /\ call \in [fn : {"update"},
                 track : {[scans |-> q, position |-> p, velocity |-> v, id |-> 0,
                           class |-> "Tentative",
                           gate |-> RadarTrackGate_new(p, F(GateRadius)),
                           contact_tick |-> 0] :
                              q \in TrackQueues, p \in TrackPositions, v \in TrackVelocities},
                 result : {None}]

UpdateCall ==
    /\ call.fn = "update"
    /\ call.result = None
    /\ call' = [call EXCEPT !.result = Some(update(call.track))]
    /\ UNCHANGED <<ship_class, current_tick, radar, tracks, fighter, missile, panicked,
                   exploded, consult, assoc, last_match, created, nplots>>

TrackNext == UpdateCall

TrackSpec == TrackInit /\ [][TrackNext]_vars

(***************************************************************************)
(* The queries of the Radar as functions of the map: QuerySpec draws a map *)
(* and a query and applies get_closest_target_to_point or get_track.       *)
(***************************************************************************)
\* the ids get_track is asked for
QueryIds == 0..2

\* the radar after the plots of `plots` have spawned one track each, the first of
\* them with id first_id (the tracks with smaller ids have been removed)
RECURSIVE QueryRadar(_, _)
QueryRadar(first_id, plots) ==
    IF plots = <<>>
    THEN [radar |-> [Radar_new EXCEPT !.id_gen = first_id], tracks |-> <<>>,
          claimed |-> <<>>, spawned |-> <<>>, removed |-> {}]
    ELSE insert_new_potential_target(
             QueryRadar(first_id, SubSeq(plots, 1, Len(plots) - 1)),
             plots[Len(plots)], 0)

QueryPlots == [position : PlotPositions, velocity : {V(0, 0)}]
QueryRadars ==
    {QueryRadar(0, <<>>)}
    \cup {QueryRadar(i, <<a>>) : i \in 0..1, a \in QueryPlots}
    \cup {QueryRadar(i, <<a, b>>) : i \in 0..1, a \in QueryPlots, b \in QueryPlots}

\* the far point is asked of the maps that hold one track
QueryPoints(q) ==
    IF Cardinality(q.radar.potential_targets) = 1 THEN HostPositions ELSE ShipPositions

ClosestInputs ==
    UNION {{[fn |-> "get_closest_target_to_point", radar |-> q.radar,
             tracks |-> q.tracks, point |-> p, order |-> o, result |-> None] :
                p \in QueryPoints(q), o \in IterationOrders(q.radar.potential_targets)} :
           q \in QueryRadars}

GetTrackInputs ==
    {[fn |-> "get_track", radar |-> q.radar, tracks |-> q.tracks, id |-> id,
      result |-> None] : q \in QueryRadars, id \in QueryIds}

QueryInit ==
    /\ ShipInit
    /\ call \in ClosestInputs \cup GetTrackInputs

ClosestCall ==
    /\ call.fn = "get_closest_target_to_point"
    /\ call.result = None
    /\ call' = [call EXCEPT !.result =
                   Some(get_closest_target_to_point(call.radar, call.tracks,
                                                    call.point, call.order))]
    /\ UNCHANGED <<ship_class, current_tick, radar, tracks, fighter, missile, panicked,
                   exploded, consult, assoc, last_match, created, nplots>>

GetTrackCall ==
    /\ call.fn = "get_track"
    /\ call.result = None
    /\ ~panicked
    /\ call' = [call EXCEPT !.result = Some(get_track(call.radar, call.id))]
    /\ panicked' = get_track_panics(call.radar, call.id)
    /\ UNCHANGED <<ship_class, current_tick, radar, tracks, fighter, missile,
                   exploded, consult, assoc, last_match, created, nplots>>

QueryNext == ClosestCall \/ GetTrackCall

QuerySpec == QueryInit /\ [][QueryNext]_vars

(***************************************************************************)
(* The free functions of ship.rs and tutorial.rs: the intercept solvers    *)
(* and the turn controller.  They compute in f64, and what they return     *)
(* depends on its rounding (the approximation loops end when two           *)
(* successive estimates differ by less than f64::EPSILON), so the model    *)
(* computes in IEEE 754 binary64 itself, bit for bit.                      *)
(***************************************************************************)
(***************************************************************************)
(* Natural numbers of any size, for the 53-bit significands of f64 and     *)
(* their products: a natural is the sequence of its digits in base 2^14,   *)
(* lowest first, without a leading zero digit (zero is <<>>).              *)
(***************************************************************************)
Limb == 2^14

NLimb(a, i) == IF i >= 1 /\ i <= Len(a) THEN a[i] ELSE 0

\* a without its leading zero digits
NTrim(a) ==
    IF a = <<>> THEN <<>>
    ELSE IF a[Len(a)] # 0 THEN a
    ELSE LET nz == {i \in 1..Len(a) : a[i] # 0}
         IN  IF nz = {} THEN <<>>
             ELSE SubSeq(a, 1, CHOOSE i \in nz : \A j \in nz : j <= i)

\* the natural k, an integer 0 <= k < 2^31
NFromInt(k) == NTrim(<<k % Limb, (k \div Limb) % Limb, k \div (Limb * Limb)>>)

\* the number of bits of a
NBitLen(a) ==
    IF a = <<>> THEN 0
    ELSE 14 * (Len(a) - 1) + (CHOOSE b \in 1..14 : 2^(b - 1) <= a[Len(a)] /\ a[Len(a)] < 2^b)

\* a * 2^k
NShl(a, k) ==
    IF a = <<>> THEN <<>>
    ELSE LET q == k \div 14
             r == k % 14
         IN  NTrim([i \in 1..(Len(a) + q + 1) |->
                       ((NLimb(a, i - q) * 2^r) % Limb)
                           + (NLimb(a, i - q - 1) \div 2^(14 - r))])

\* a \div 2^k
NShr(a, k) ==
    LET q == k \div 14
        r == k % 14
    IN  IF Len(a) <= q THEN <<>>
        ELSE NTrim([i \in 1..(Len(a) - q) |->
                      (NLimb(a, i + q) \div 2^r) + ((NLimb(a, i + q + 1) % 2^r) * 2^(14 - r))])

\* a is a multiple of 2^k
NLowZero(a, k) ==
    /\ \A i \in 1..(k \div 14) : NLimb(a, i) = 0
    /\ NLimb(a, (k \div 14) + 1) % 2^(k % 14) = 0

\* bit i of a, bit 0 being the lowest
NBit(a, i) == (NLimb(a, (i \div 14) + 1) \div 2^(i % 14)) % 2

\* -1, 0 or 1 as a is below, equal to or above b
NCmp(a, b) ==
    IF Len(a) # Len(b) THEN (IF Len(a) < Len(b) THEN -1 ELSE 1)
    ELSE LET diff == {i \in 1..Len(a) : a[i] # b[i]}
         IN  IF diff = {} THEN 0
             ELSE LET k == CHOOSE i \in diff : \A j \in diff : j <= i
                  IN  IF a[k] < b[k] THEN -1 ELSE 1

\* the carry into digit i of a + b: a digit sum below it overflows, and every
\* digit sum between the two is 2^14 - 1
NCarry(a, b, i) ==
    \E j \in 1..(i - 1) :
        /\ NLimb(a, j) + NLimb(b, j) >= Limb
        /\ \A k \in (j + 1)..(i - 1) : NLimb(a, k) + NLimb(b, k) = Limb - 1

NAdd(a, b) ==
    IF a = <<>> THEN NTrim(b)
    ELSE IF b = <<>> THEN NTrim(a)
    ELSE NTrim([i \in 1..((IF Len(a) > Len(b) THEN Len(a) ELSE Len(b)) + 1) |->
                   (NLimb(a, i) + NLimb(b, i) + (IF NCarry(a, b, i) THEN 1 ELSE 0))
                       % Limb])

\* the borrow from digit i of a - b: a digit of a below it is below that of b,
\* and the digits between the two are equal
NBorrow(a, b, i) ==
    \E j \in 1..(i - 1) :
        /\ NLimb(a, j) < NLimb(b, j)
        /\ \A k \in (j + 1)..(i - 1) : NLimb(a, k) = NLimb(b, k)

\* a - b, for a >= b
NSub(a, b) ==
    IF b = <<>> THEN a
    ELSE NTrim([i \in 1..Len(a) |->
                   (a[i] - NLimb(b, i) - (IF NBorrow(a, b, i) THEN 1 ELSE 0) + Limb)
                       % Limb])

\* a * k, for a digit k: the low halves of the digit products plus their high
\* halves one digit up
NMulSmall(a, k) ==
    IF k = 0 \/ a = <<>> THEN <<>>
    ELSE NAdd([i \in 1..Len(a) |-> (a[i] * k) % Limb],
              [i \in 1..(Len(a) + 1) |-> IF i = 1 THEN 0 ELSE (a[i - 1] * k) \div Limb])

RECURSIVE NMulFrom(_, _, _)
NMulFrom(a, b, j) ==
    IF j > Len(b) THEN <<>>
    ELSE NAdd(NShl(NMulSmall(a, b[j]), 14 * (j - 1)), NMulFrom(a, b, j + 1))

NMul(a, b) == NMulFrom(a, b, 1)

\* one step of the long division by v, whose highest digit is 2^13 or more, from
\* the state s = [i, q, r] (i digits still to bring down, the digits q of the
\* quotient found so far, lowest first, and the remainder r): r1 is r with the
\* next digit brought down, and the next digit of the quotient is q0 (the two
\* highest digits of r1 over the highest digit of v, at most 2^14 - 1), q0 - 1
\* or q0 - 2
NDivDigit(v, s, r1, q0) ==
    IF q0 = 0 THEN [i |-> s.i - 1, q |-> <<0>> \o s.q, r |-> r1]
    ELSE IF NCmp(NMulSmall(v, q0), r1) <= 0
    THEN [i |-> s.i - 1, q |-> <<q0>> \o s.q, r |-> NSub(r1, NMulSmall(v, q0))]
    ELSE IF NCmp(NMulSmall(v, q0 - 1), r1) <= 0
    THEN [i |-> s.i - 1, q |-> <<q0 - 1>> \o s.q, r |-> NSub(r1, NMulSmall(v, q0 - 1))]
    ELSE [i |-> s.i - 1, q |-> <<q0 - 2>> \o s.q, r |-> NSub(r1, NMulSmall(v, q0 - 2))]

NDivEstimate(v, r1) ==
    LET top == NLimb(r1, Len(v) + 1) * Limb + NLimb(r1, Len(v))
    IN  IF top \div v[Len(v)] > Limb - 1 THEN Limb - 1 ELSE top \div v[Len(v)]

NDivBroughtDown(v, s, r1) ==
    IF r1 = <<>> THEN [i |-> s.i - 1, q |-> <<0>> \o s.q, r |-> r1]
    ELSE NDivDigit(v, s, r1, NDivEstimate(v, r1))

NDivStep(u, v, s) == NDivBroughtDown(v, s, NTrim(<<u[s.i]>> \o s.r))

RECURSIVE NDivFrom(_, _, _)
NDivFrom(u, v, s) == IF s.i = 0 THEN s ELSE NDivFrom(u, v, NDivStep(u, v, s))

NDivEnd(s) == [q |-> NTrim(s.q), exact |-> s.r = <<>>]

NDivNormal(u, v) == NDivEnd(NDivFrom(u, v, [i |-> Len(u), q |-> <<>>, r |-> <<>>]))

\* [q, exact]: the quotient u \div v and whether u is a multiple of v, for v # 0
NDiv(u, v) ==
    NDivNormal(NShl(u, 14 * Len(v) - NBitLen(v)), NShl(v, 14 * Len(v) - NBitLen(v)))

\* the largest r in lo..hi with r * r <= n (lo * lo <= n)
RECURSIVE ISqrtIn(_, _, _)
ISqrtIn(n, lo, hi) ==
    IF lo = hi THEN lo
    ELSE LET mid == (lo + hi + 1) \div 2
         IN  IF mid * mid <= n THEN ISqrtIn(n, mid, hi) ELSE ISqrtIn(n, lo, mid - 1)

\* the integer part of the square root of n, 0 <= n < 2^31
ISqrt(n) == ISqrtIn(n, 0, IF n < 46340 THEN n ELSE 46340)

\* Newton's iteration from r, a number not below the square root of a
RECURSIVE NSqrtFrom(_, _)

NSqrtNext(a, r, next) == IF NCmp(next, r) >= 0 THEN r ELSE NSqrtFrom(a, next)

NSqrtFrom(a, r) == NSqrtNext(a, r, NShr(NAdd(r, NDiv(a, r).q), 1))

\* the integer part of the square root of a, whose highest 29 or 30 bits are the
\* number head and the sh bits below them the rest (sh even)
NSqrtOf(a, sh, head) ==
    NSqrtFrom(a, NShl(NFromInt(ISqrt(NLimb(head, 1) + NLimb(head, 2) * Limb
                                      + NLimb(head, 3) * Limb * Limb) + 1),
                       sh \div 2))

NSqrtBelow(a, sh) == NSqrtOf(a, sh, NShr(a, sh))

\* the integer part of the square root of a, a number of 31 bits or more
NSqrt(a) ==
    NSqrtBelow(a, IF NBitLen(a) % 2 = 0 THEN NBitLen(a) - 30 ELSE NBitLen(a) - 29)

(***************************************************************************)
(* f64.  A number is <<s, e, m>>: the sign s, 1 or -1, the exponent e and  *)
(* the significand m, four digits in base 2^14, lowest first; the number   *)
(* is s * (m[1] + m[2] * 2^14 + m[3] * 2^28 + m[4] * 2^42) * 2^e.  A       *)
(* normal number has 2^52 <= m < 2^53 and -1074 <= e <= 971; a subnormal   *)
(* number and zero have e = -1074 and m < 2^52.  e = 1024 marks the        *)
(* non-finite values: infinity with m = 0 and NaN with m = 1.  Arithmetic  *)
(* rounds to the nearest number, ties to the even significand.             *)
(***************************************************************************)
Sgn(n) == IF n < 0 THEN -1 ELSE IF n > 0 THEN 1 ELSE 0

Inf(s) == <<s, 1024, <<0, 0, 0, 0>>>>
PosInf == Inf(1)
NegInf == Inf(-1)
NaN == <<1, 1024, <<1, 0, 0, 0>>>>
Zero(s) == <<s, -1074, <<0, 0, 0, 0>>>>

IsFinite(x) == x[2] < 1024
IsNaN(x) == x = NaN
IsZero(x) == x[2] = -1074 /\ x[3] = <<0, 0, 0, 0>>

\* the f64 s * q * 2^e, q being of 53 bits, or of 54 after a carry out of the
\* rounding, or of fewer for e = -1074; infinite when e is above the range
DPack(s, q, e) ==
    IF NBitLen(q) = 54
    THEN (IF e + 1 > 971 THEN Inf(s)
          ELSE <<s, e + 1, [i \in 1..4 |-> NLimb(NShr(q, 1), i)]>>)
    ELSE IF e > 971 THEN Inf(s)
    ELSE <<s, e, [i \in 1..4 |-> NLimb(q, i)]>>

\* q, or q + 1 where the part cut off is above half a unit of q, or is half a
\* unit (half and not more) and q is odd
NRoundEven(q, half, more) ==
    IF half /\ (more \/ NLimb(q, 1) % 2 = 1) THEN NAdd(q, <<1>>) ELSE q

\* the f64 nearest s * (a + d) * 2^e that is a multiple of 2^(e + shift)
DRoundAt(s, a, e, sticky, shift) ==
    IF shift <= 0 THEN DPack(s, NShl(a, -shift), e + shift)
    ELSE DPack(s, NRoundEven(NShr(a, shift), NBit(a, shift - 1) = 1,
                             sticky \/ ~NLowZero(a, shift - 1)),
               e + shift)

\* the f64 nearest s * (a + d) * 2^e, where a is a natural, 0 <= d < 1 and
\* sticky tells whether d > 0 (a has 55 bits or more when it does): 53 bits are
\* kept, or as many as are above 2^-1074
DRound(s, a, e, sticky) ==
    IF a = <<>> THEN Zero(s)
    ELSE DRoundAt(s, a, e, sticky,
                  IF e + NBitLen(a) - 53 < -1074 THEN -1074 - e ELSE NBitLen(a) - 53)

\* the significand of a finite number as a natural, and the number s * a * 2^e
\* with a of 53 bits that a finite x # 0 is
DNat(x) == NTrim(x[3])
DLift(x) ==
    [a |-> NShl(DNat(x), 53 - NBitLen(DNat(x))), e |-> x[2] - (53 - NBitLen(DNat(x)))]

\* the f64 literal k.0 and the f64 nearest n / d
D(k) == DRound(IF k < 0 THEN -1 ELSE 1, NFromInt(IF k < 0 THEN -k ELSE k), 0, FALSE)

\* -x
DNeg(x) == IF IsNaN(x) THEN NaN ELSE <<-x[1], x[2], x[3]>>

\* f64::abs
DAbs(x) == <<1, x[2], x[3]>>

\* -1, 0 or 1 as |x| is below, equal to or above |y|, neither being NaN
DCmpAbs(x, y) ==
    IF x[2] # y[2] THEN (IF x[2] < y[2] THEN -1 ELSE 1) ELSE NCmp(DNat(x), DNat(y))

\* sa * a * 2^e + sb * b * 2^e; the sum of opposite numbers is +0
DAddAligned(sa, a, sb, b, e) ==
    IF sa # sb /\ NCmp(a, b) = 0 THEN Zero(1)
    ELSE DRound(IF sa = sb \/ NCmp(a, b) > 0 THEN sa ELSE sb,
                IF sa = sb THEN NAdd(a, b)
                ELSE IF NCmp(a, b) > 0 THEN NSub(a, b) ELSE NSub(b, a),
                e, FALSE)

\* hi + lo for finite numbers # 0, the exponent of hi not below that of lo; a
\* number more than 60 binary places below hi rounds as any other such number
DAddOrdered(hi, lo) ==
    DAddAligned(hi[1],
                NShl(DNat(hi), IF hi[2] - lo[2] > 60 THEN 60 ELSE hi[2] - lo[2]),
                lo[1],
                IF hi[2] - lo[2] > 60 THEN <<1>> ELSE DNat(lo),
                IF hi[2] - lo[2] > 60 THEN hi[2] - 60 ELSE lo[2])

\* x + y; inf + (-inf) is NaN
DAdd(x, y) ==
    IF IsNaN(x) \/ IsNaN(y) THEN NaN
    ELSE IF ~IsFinite(x) THEN (IF ~IsFinite(y) /\ x[1] # y[1] THEN NaN ELSE x)
    ELSE IF ~IsFinite(y) THEN y
    ELSE IF IsZero(x) /\ IsZero(y) THEN (IF x[1] = y[1] THEN x ELSE Zero(1))
    ELSE IF IsZero(x) THEN y
    ELSE IF IsZero(y) THEN x
    ELSE DAddOrdered(IF x[2] >= y[2] THEN x ELSE y, IF x[2] >= y[2] THEN y ELSE x)

DSub(x, y) == DAdd(x, DNeg(y))

\* x * y; inf * 0 is NaN
DMul(x, y) ==
    IF IsNaN(x) \/ IsNaN(y) THEN NaN
    ELSE IF ~IsFinite(x) \/ ~IsFinite(y)
         THEN (IF IsZero(x) \/ IsZero(y) THEN NaN ELSE Inf(x[1] * y[1]))
    ELSE DRound(x[1] * y[1], NMul(DNat(x), DNat(y)), x[2] + y[2], FALSE)

\* s * (u.a * 2^u.e) / (v.a * 2^v.e) from the quotient d of u.a * 2^56 by v.a
DDivRound(s, e, d) ==
    IF d.exact THEN DRound(s, d.q, e, FALSE) ELSE DRound(s, d.q, e, TRUE)

DDivLifted(s, u, v) == DDivRound(s, u.e - v.e - 56, NDiv(NShl(u.a, 56), v.a))

\* x / y; a finite x # 0 over zero is infinite, 0 / 0 and inf / inf are NaN
DDiv(x, y) ==
    IF IsNaN(x) \/ IsNaN(y) THEN NaN
    ELSE IF ~IsFinite(x) THEN (IF ~IsFinite(y) THEN NaN ELSE Inf(x[1] * y[1]))
    ELSE IF ~IsFinite(y) THEN Zero(x[1] * y[1])
    ELSE IF IsZero(y) THEN (IF IsZero(x) THEN NaN ELSE Inf(x[1] * y[1]))
    ELSE IF IsZero(x) THEN Zero(x[1] * y[1])
    ELSE DDivLifted(x[1] * y[1], DLift(x), DLift(y))

DRat(n, d) == DDiv(D(n), D(d))

\* x < y; false when either is NaN
DLt(x, y) ==
    IF IsNaN(x) \/ IsNaN(y) THEN FALSE
    ELSE IF IsZero(x) /\ IsZero(y) THEN FALSE
    ELSE IF x[1] # y[1] THEN x[1] < y[1]
    ELSE IF x[1] = 1 THEN DCmpAbs(x, y) < 0
    ELSE DCmpAbs(x, y) > 0

\* x > y and x <= y; false when either is NaN
DGt(x, y) == DLt(y, x)
DLe(x, y) == ~IsNaN(x) /\ ~IsNaN(y) /\ ~DLt(y, x)

\* f64::min of two numbers neither of which is NaN
DMin(x, y) == IF DLt(y, x) THEN y ELSE x

\* the f64 nearest the square root of a * 2^(2 * e), r being the integer part of
\* the square root of a
DSqrtRound(a, e, r) ==
    IF NMul(r, r) = a THEN DRound(1, r, e, FALSE) ELSE DRound(1, r, e, TRUE)

DSqrtOf(a, e) == DSqrtRound(a, e, NSqrt(a))

\* the square root of u.a * 2^u.e, taken of u.a * 2^58 or u.a * 2^59, whichever
\* leaves an even exponent
DSqrtLifted(u) == DSqrtOf(NShl(u.a, 58 + (u.e % 2)), (u.e - 58 - (u.e % 2)) \div 2)

\* f64::sqrt: NaN below zero
DSqrt(x) ==
    IF IsNaN(x) THEN NaN
    ELSE IF IsZero(x) THEN x
    ELSE IF x[1] < 0 THEN NaN
    ELSE IF ~IsFinite(x) THEN x
    ELSE DSqrtLifted(DLift(x))

\* f64::ceil
DCeil(x) ==
    IF ~IsFinite(x) \/ IsZero(x) \/ x[2] >= 0 THEN x
    ELSE DRound(x[1],
                IF x[1] = 1 /\ ~NLowZero(DNat(x), -x[2])
                THEN NAdd(NShr(DNat(x), -x[2]), <<1>>)
                ELSE NShr(DNat(x), -x[2]),
                0, FALSE)

\* f64::EPSILON, 2^-52
EPSILON == <<1, -104, <<0, 0, 0, 2^10>>>>

\* x < E
lt_E(x) == DLt(x, EPSILON)

\* Vec2 over these numbers
DV(x, y) == Vec2(D(x), D(y))
DVAdd(a, b) == Vec2(DAdd(a.x, b.x), DAdd(a.y, b.y))
DVSub(a, b) == Vec2(DSub(a.x, b.x), DSub(a.y, b.y))
DVMul(a, k) == Vec2(DMul(a.x, k), DMul(a.y, k))
DVDiv(a, k) == Vec2(DDiv(a.x, k), DDiv(a.y, k))
dot(a, b) == DAdd(DMul(a.x, b.x), DMul(a.y, b.y))
\* Vec2::length(): sqrt(x * x + y * y)
length(a) == DSqrt(dot(a, a))

BULLET_SPEED == 1000
\* the iteration counts of iterative_approximation_gun and of the tutorial's
\* Ship::iterative_approximation
GunIterations == 20
TutorialIterations == 100

\* calculate_angular_velocity, angular_velocity being what angular_velocity()
\* returns; ship.rs and tutorial.rs hold the same text
calculate_angular_velocity_no_sqrt(tune_factor, angle_to_mark, angular_velocity) ==
    LET c1 == DMul(D(2), tune_factor)
    IN  DSub(DMul(tune_factor, angle_to_mark), DMul(c1, angular_velocity))

calculate_angular_velocity(tune_factor, angle_to_mark, angular_velocity) ==
    LET c1 == DMul(D(2), DSqrt(tune_factor))
    IN  DSub(DMul(tune_factor, angle_to_mark), DMul(c1, angular_velocity))

\* get_target_lead_in_ticks, position_fixed and velocity being what
\* position_fixed() and velocity() return
get_target_lead_in_ticks(target_position, target_velocity, position_fixed, velocity) ==
    LET delta_position == DVSub(target_position, position_fixed)
        delta_velocity == DVDiv(DVSub(target_velocity, velocity), D(60))
    IN  DVAdd(delta_position,
              DVDiv(DVMul(delta_velocity, length(delta_position)),
                    DCeil(DDiv(D(BULLET_SPEED), D(60)))))

\* the end of get_smallest_quadratic_solution: the smaller root above zero, or
\* -1.0 when neither is
smallest_positive(x2, x1) ==
    IF DGt(x2, D(0)) /\ DGt(x1, D(0)) THEN DMin(x2, x1)
    ELSE IF DGt(x1, D(0)) THEN x1
    ELSE IF DGt(x2, D(0)) THEN x2
    ELSE D(-1)

\* its roots x2 and x1, s being discriminant.sqrt()
quadratic_roots(a, b, s) ==
    smallest_positive(DDiv(DAdd(DNeg(b), s), DMul(D(2), a)),
                      DDiv(DSub(DNeg(b), s), DMul(D(2), a)))

\* get_smallest_quadratic_solution with the discriminant b*b + 4ac
get_smallest_quadratic_solution_plus(a, b, c) ==
    LET discriminant == DAdd(DMul(b, b), DMul(DMul(D(4), a), c))
    IN  IF DLt(discriminant, D(0)) THEN D(-1)
        ELSE quadratic_roots(a, b, DSqrt(discriminant))

\* get_smallest_quadratic_solution; ship.rs and tutorial.rs hold the same text
get_smallest_quadratic_solution(a, b, c) ==
    LET discriminant == DSub(DMul(b, b), DMul(DMul(D(4), a), c))
    IN  IF DLt(discriminant, D(0)) THEN D(-1)
        ELSE quadratic_roots(a, b, DSqrt(discriminant))

\* the `t` of quadratic_lead: the solver's answer for its coefficients a, b, c
quadratic_lead_t(target_position, target_velocity) ==
    LET a == DSub(dot(target_velocity, target_velocity),
                  DMul(D(BULLET_SPEED), D(BULLET_SPEED)))
        b == DMul(D(2), dot(target_position, target_velocity))
        c == dot(target_position, target_position)
    IN  get_smallest_quadratic_solution(a, b, c)

\* quadratic_lead of ship.rs
quadratic_lead(target_position, target_velocity, position_fixed, velocity) ==
    LET t == quadratic_lead_t(target_position, target_velocity)
    IN  IF DLe(t, D(0))
        THEN get_target_lead_in_ticks(target_position, target_velocity,
                                      position_fixed, velocity)
        ELSE DVAdd(target_position, DVMul(target_velocity, t))

\* quadratic_lead of tutorial.rs, position being what position() returns
tutorial_quadratic_lead(target_position, target_velocity, position) ==
    LET t == quadratic_lead_t(target_position, target_velocity)
    IN  IF DLe(t, D(0)) THEN position
        ELSE DVAdd(target_position, DVMul(target_velocity, t))

\* the end of a pass that computed t: `break` when t - old_t < E
approximation_step(s, t) ==
    IF lt_E(DSub(t, s.t))
    THEN [s EXCEPT !.t = t, !.old_t = s.t, !.broke = TRUE, !.passes = @ + 1]
    ELSE [s EXCEPT !.t = t, !.old_t = s.t, !.iterations = @ - 1, !.passes = @ + 1]

\* one pass of `while iterations > 0` over the loop's state [t, iterations],
\* kept with old_t, whether the loop was left by `break`, and the passes made
approximation_pass(target_position, target_velocity, position, s) ==
    IF s.broke \/ s.iterations <= 0 THEN s
    ELSE approximation_step(s, DDiv(length(DVAdd(DVSub(target_position, position),
                                                 DVMul(target_velocity, s.t))),
                                    D(BULLET_SPEED)))

\* up to n passes, ended where the loop ends; the passes are made in two halves
RECURSIVE approximation_passes(_, _, _, _, _)
approximation_passes(target_position, target_velocity, position, s, n) ==
    IF s.broke \/ s.iterations <= 0 \/ n = 0 THEN s
    ELSE IF n = 1 THEN approximation_pass(target_position, target_velocity, position, s)
    ELSE approximation_passes(target_position, target_velocity, position,
             approximation_passes(target_position, target_velocity, position, s,
                                  n \div 2),
             n - (n \div 2))

\* the loop from t = 0.0 to its end, which comes within `iterations` passes
approximation_loop(target_position, target_velocity, position, iterations) ==
    approximation_passes(target_position, target_velocity, position,
                         [t |-> D(0), old_t |-> D(0), iterations |-> iterations,
                          broke |-> FALSE, passes |-> 0],
                         iterations)

\* the point returned after the loop l, with the loop's account beside it
approximation_point(target_position, target_velocity, l) ==
    [point |-> DVAdd(target_position, DVMul(target_velocity, l.t)), loop |-> l]

\* iterative_approximation_gun of ship.rs and Ship::iterative_approximation of
\* tutorial.rs
iterative_approximation_gun(target_position, target_velocity, position_fixed) ==
    approximation_point(target_position, target_velocity,
                        approximation_loop(target_position, target_velocity,
                                           position_fixed, GunIterations))

iterative_approximation(target_position, target_velocity, position) ==
    approximation_point(target_position, target_velocity,
                        approximation_loop(target_position, target_velocity,
                                           position, TutorialIterations))

(***************************************************************************)
(* LibSpec draws the arguments of one call of one of these functions, and  *)
(* what the host returns during it, and applies the function.              *)
(***************************************************************************)
CoefficientA == 2
CoefficientBC == 4

SolverInputs ==
    {[fn |-> "get_smallest_quadratic_solution", a |-> D(a), b |-> D(b), c |-> D(c),
      result |-> None] :
        <<a, b, c>> \in (-CoefficientA..CoefficientA)
                           \X (-CoefficientBC..CoefficientBC)
                           \X (-CoefficientBC..CoefficientBC)}

TargetPositions == {DV(1000, 0), DV(-1000, 0), DV(2000, 0), DV(0, 0)}
TargetVelocities ==
    {DV(0, 0), DV(100, 0), DV(250, 0), DV(500, 0), DV(-500, 0), DV(1000, 0),
     DV(-1000, 0), DV(2000, 0), DV(-2000, 0), DV(600, 800), DV(-600, -800),
     DV(30, 40)}
OwnPositions == {DV(0, 0), DV(100, 0)}
OwnVelocities == {DV(0, 0), DV(0, 60), DV(1000, 0)}

LeadInputs ==
    {[fn |-> f, target_position |-> tp, target_velocity |-> tv, position |-> p,
      velocity |-> v, result |-> None] :
        f \in {"quadratic_lead", "tutorial quadratic_lead"},
        tp \in TargetPositions, tv \in TargetVelocities,
        p \in OwnPositions, v \in OwnVelocities}

ApproximationInputs ==
    {[fn |-> f, target_position |-> tp, target_velocity |-> tv, position |-> p,
      result |-> None] :
        f \in {"iterative_approximation_gun", "Ship::iterative_approximation"},
        tp \in TargetPositions, tv \in TargetVelocities, p \in OwnPositions}

Gains == {D(0), D(1), D(4), DRat(9, 4), D(50), D(1000)}
Angles == {D(0), DRat(1, 5), DRat(-1, 5), D(3)}
AngularVelocities == {D(0), D(1), DRat(-1, 2)}

AngularInputs ==
    {[fn |-> "calculate_angular_velocity", tune_factor |-> k, angle_to_mark |-> e,
      angular_velocity |-> w, result |-> None] :
        k \in Gains, e \in Angles, w \in AngularVelocities}

LibInit ==
    /\ ShipInit
    /\ call \in SolverInputs \cup LeadInputs \cup ApproximationInputs \cup AngularInputs

SolverCall ==
    /\ call.fn = "get_smallest_quadratic_solution"
    /\ call.result = None
    /\ call' = [call EXCEPT !.result =
                   Some(get_smallest_quadratic_solution(call.a, call.b, call.c))]
    /\ UNCHANGED <<ship_class, current_tick, radar, tracks, fighter, missile, panicked,
                   exploded, consult, assoc, last_match, created, nplots>>

\* the result is [t, point]: the solver's answer and the point returned
LeadCall ==
    /\ call.fn = "quadratic_lead"
    /\ call.result = None
    /\ call' = [call EXCEPT !.result =
                   Some([t |-> quadratic_lead_t(call.target_position, call.target_velocity),
                         point |-> quadratic_lead(call.target_position,
                                                  call.target_velocity,
                                                  call.position, call.velocity)])]
    /\ UNCHANGED <<ship_class, current_tick, radar, tracks, fighter, missile, panicked,
                   exploded, consult, assoc, last_match, created, nplots>>

TutorialLeadCall ==
    /\ call.fn = "tutorial quadratic_lead"
    /\ call.result = None
    /\ call' = [call EXCEPT !.result =
                   Some([t |-> quadratic_lead_t(call.target_position, call.target_velocity),
                         point |-> tutorial_quadratic_lead(call.target_position,
                                                           call.target_velocity,
                                                           call.position)])]
    /\ UNCHANGED <<ship_class, current_tick, radar, tracks, fighter, missile, panicked,
                   exploded, consult, assoc, last_match, created, nplots>>

GunApproximationCall ==
    /\ call.fn = "iterative_approximation_gun"
    /\ call.result = None
    /\ call' = [call EXCEPT !.result =
                   Some(iterative_approximation_gun(call.target_position,
                                                    call.target_velocity, call.position))]
    /\ UNCHANGED <<ship_class, current_tick, radar, tracks, fighter, missile, panicked,
                   exploded, consult, assoc, last_match, created, nplots>>

TutorialApproximationCall ==
    /\ call.fn = "Ship::iterative_approximation"
    /\ call.result = None
    /\ call' = [call EXCEPT !.result =
                   Some(iterative_approximation(call.target_position,
                                                call.target_velocity, call.position))]
    /\ UNCHANGED <<ship_class, current_tick, radar, tracks, fighter, missile, panicked,
                   exploded, consult, assoc, last_match, created, nplots>>

AngularCall ==
    /\ call.fn = "calculate_angular_velocity"
    /\ call.result = None
    /\ call' = [call EXCEPT !.result =
                   Some(calculate_angular_velocity(call.tune_factor, call.angle_to_mark,
                                                   call.angular_velocity))]
    /\ UNCHANGED <<ship_class, current_tick, radar, tracks, fighter, missile, panicked,
                   exploded, consult, assoc, last_match, created, nplots>>

LibNext ==
    \/ SolverCall
    \/ LeadCall
    \/ TutorialLeadCall
    \/ GunApproximationCall
    \/ TutorialApproximationCall
    \/ AngularCall

LibSpec == LibInit /\ [][LibNext]_vars

(***************************************************************************)
(* The commands a tick hands to the host.  A run of code is modelled by    *)
(* the sequence of commands it issues, each [cmd, ...]: accelerate with    *)
(* the expression accelerated by, torque with the gain of                  *)
(* calculate_angular_velocity, turn, fire with the weapon index, explode,  *)
(* and the settings of the radar.  current_diff is what                    *)
(* angle_diff(heading(), <aim>.angle()) returns: heading() is the host's,  *)
(* so it may be any angle whatever the aim point.                          *)
(***************************************************************************)
accelerate(by) == [cmd |-> "accelerate", by |-> by]
torque(tune_factor) == [cmd |-> "torque", tune_factor |-> tune_factor]
turn == [cmd |-> "turn"]
fire(index) == [cmd |-> "fire", index |-> index]
explode == [cmd |-> "explode"]
set_radar(what, to) == [cmd |-> "set_radar", what |-> what, to |-> to]

\* a.length() > k for an integer k > 0 and a vector of the size of the battlefield
length_above(a, k) == FLt(F(k * k), LengthSq(a))

\* current_diff.abs() > 0.1
off_aim(current_diff) == FLt(Rat(1, 10), <<Abs(current_diff[1]), current_diff[2]>>)

\* Fighter::shoot: t is the designated track
shoot(t, point) ==
    IF length_below(VSub(t.position, point), 1000) THEN <<fire(0)>> ELSE <<>>

turn_to_lead_target(t, point, current_diff) ==
    IF off_aim(current_diff) THEN <<torque(50)>>
    ELSE <<torque(1000)>> \o shoot(t, point)

turn_to_lead_target_aggressive(t, point, current_diff) ==
    IF off_aim(current_diff) THEN <<torque(4)>>
    ELSE <<torque(10)>> \o shoot(t, point)

fly_to_target(t, point, current_diff) == turn_to_lead_target(t, point, current_diff)

\* engage_target with a target set
engage_target(t, point, current_diff) ==
    (IF length_below(VSub(t.position, point), 1000)
     THEN turn_to_lead_target_aggressive(t, point, current_diff)
     ELSE fly_to_target(t, point, current_diff))
    \o <<fire(1)>>

\* basic_maneuver_to_target matching the contact's motion at 500 and at 1000 too
basic_maneuver_to_target_closed_ranges(t, point, keep_going) ==
    LET contact_distance == VSub(t.position, point)
        contact_future == VAdd(t.position, t.velocity)
        target_distance_increasing ==
            FLt(LengthSq(contact_distance), LengthSq(VSub(point, contact_future)))
    IN  IF keep_going
        THEN IF length_below(contact_distance, 500)
             THEN IF target_distance_increasing
                  THEN <<accelerate("10.0 * normal_vec")>>
                  ELSE <<accelerate("-10.0 * normal_vec")>>
             ELSE <<accelerate("10.0 * contact_velocity")>>
                  \o (IF length_above(contact_distance, 1000)
                      THEN <<accelerate("100.0 * normal_vec")>> ELSE <<>>)
        ELSE <<accelerate("-velocity()")>>

\* basic_maneuver_to_target after its get_track has returned; keep_going is
\* time_to_stop < tti, which the host's velocity() decides
basic_maneuver_to_target(t, point, keep_going) ==
    LET contact_distance == VSub(t.position, point)
        contact_future == VAdd(t.position, t.velocity)
        target_distance_increasing ==
            FLt(LengthSq(contact_distance), LengthSq(VSub(point, contact_future)))
    IN  IF keep_going
        THEN IF length_below(contact_distance, 500)
             THEN IF target_distance_increasing
                  THEN <<accelerate("10.0 * normal_vec")>>
                  ELSE <<accelerate("-10.0 * normal_vec")>>
             ELSE IF length_above(contact_distance, 500)
                     /\ length_below(contact_distance, 1000)
             THEN <<accelerate("10.0 * contact_velocity")>>
             ELSE IF length_above(contact_distance, 1000)
             THEN <<accelerate("100.0 * normal_vec")>>
             ELSE <<>>
        ELSE <<accelerate("-velocity()")>>

no_target == <<accelerate("dir * mag")>>

engaging_target(f, r, point, current_diff, keep_going) ==
    IF f.target # None
    THEN basic_maneuver_to_target(r.tracks[f.target[1]], point, keep_going)
         \o engage_target(r.tracks[f.target[1]], point, current_diff)
    ELSE <<>>

\* the commands of Fighter::ship_control; a panic of basic_maneuver_to_target
\* comes before its first command
ship_control(f, r, point, order, current_diff, keep_going) ==
    IF ship_control_panics(f, r, point, order) THEN <<>>
    ELSE IF f.state = "NoTarget" THEN no_target
    ELSE IF f.state = "Engaged"
         THEN engaging_target(f, r, point, current_diff, keep_going)
    ELSE <<>>

\* the commands of radar_loop; u is the radar update_tracks leaves and lock what
\* lock_radar_to_target reads.  set_beam_width sets the width (`to` is the
\* multiple of PI), then the sweep of radar.state sets the heading and the range
\* window; lock_radar_to_target sets the width again, and its panic comes before
\* its first command
radar_loop_commands(u, lock) ==
    <<set_radar("width", set_beam_width(u.radar))>>
    \o (IF u.radar.state = "TargetFocus"
        THEN IF sweep(u.radar, u.tracks, lock).panic THEN <<>>
             ELSE <<set_radar("heading", "t_dir.angle()"),
                    set_radar("width", sweep(u.radar, u.tracks, lock).width),
                    set_radar("max_distance", sweep(u.radar, u.tracks, lock).max_distance[1]),
                    set_radar("min_distance", sweep(u.radar, u.tracks, lock).min_distance[1])>>
        ELSE <<set_radar("heading", "radar_heading() + radar_width()"),
               set_radar("max_distance", sweep(u.radar, u.tracks, lock).max_distance[1]),
               set_radar("min_distance", sweep(u.radar, u.tracks, lock).min_distance[1])>>)

\* the commands of Missile::tick after radar_loop, r being the radar radar_loop
\* leaves: with a contact and a target those of seek (accelerate(a) and the turn
\* of turn_to), and explode once for each of the two tests that holds
Missile_seek_commands(m, r, point, fuel, order) ==
    LET d == Missile_seek(m, r, point, fuel, order)
    IN  IF ~r.panic /\ has_contacts(r.radar) /\ ~d.panic
        THEN <<accelerate("a"), turn>>
             \o (IF length_below(VSub(r.tracks[d.missile.target[1]].position, point),
                                 ExplodeDistance)
                 THEN <<explode>> ELSE <<>>)
             \o (IF FLe(fuel, F(0)) THEN <<explode>> ELSE <<>>)
        ELSE <<>>

\* the commands of Missile::tick on a tick where scan() returns scan_result and
\* current_tick() returns tick: those of radar_loop, then those of the rest of
\* the tick.  r0 is the radar when the tick begins, order and closest_order the
\* orders in which add_detection_point and get_closest_target_to_point visit the
\* map
Missile_commands(m, r0, scan_result, tick, order, lock, point, fuel, closest_order) ==
    radar_loop_commands(update_tracks(r0), lock)
    \o Missile_seek_commands(m, radar_loop(r0, scan_result, tick, order, lock),
                             point, fuel, closest_order)

\* the Ship of tutorial.rs is [target_lock, target]
tutorial_Ship_new == [target_lock |-> FALSE, target |-> None]

\* set_tracking: [ship, panic].  target_lock is assigned first, and
\* object.unwrap() panics on None before target is assigned
tutorial_set_tracking(ship, tracking, object) ==
    IF object = None
    THEN [ship |-> [ship EXCEPT !.target_lock = tracking], panic |-> TRUE]
    ELSE [ship |-> [ship EXCEPT !.target_lock = tracking, !.target = object],
          panic |-> FALSE]

tutorial_radar_lock(ship, engage) ==
    IF engage /\ ship.target # None
    THEN <<set_radar("heading", "(target - position()).angle()"),
           set_radar("width", "PI / targ_dist.log(2.0)"),
           set_radar("max_distance", "targ_dist + (targ_dist * 0.1)"),
           set_radar("min_distance", "targ_dist - (targ_dist * 0.3)")>>
    ELSE <<set_radar("heading", "radar_heading() + radar_width()"),
           set_radar("width", "PI / 2.0"),
           set_radar("max_distance", "10_000.0"),
           set_radar("min_distance", "25.0")>>

tutorial_turn_to_lead_target(current_diff) ==
    IF off_aim(current_diff) THEN <<torque(69)>>
    ELSE <<torque(20000), fire(0)>>

tutorial_track_target(ship, engage, current_diff) ==
    IF ship.target = None THEN <<>>
    ELSE IF engage THEN tutorial_turn_to_lead_target(current_diff)
    ELSE <<>>

\* Ship::tick of tutorial.rs: the ship it leaves, the commands it issues and
\* whether it panics (set_tracking is called with the contact scan() returned)
tutorial_tick(ship, scan_result, position, current_diff) ==
    IF scan_result # None
    THEN LET contact == scan_result[1]
             tracking == tutorial_set_tracking(ship, TRUE, Some(contact))
             dist == VSub(contact.position, position)
         IN  [ship |-> tracking.ship,
              panic |-> tracking.panic,
              commands |->
                 tutorial_radar_lock(tracking.ship, TRUE)
                 \o tutorial_track_target(tracking.ship, TRUE, current_diff)
                 \o (IF length_below(dist, 500)
                     THEN <<accelerate("Vec2::new(0.0, 0.0)")>>
                     ELSE IF length_above(dist, 500) /\ length_below(dist, 1000)
                     THEN <<accelerate("100.0 * contact.velocity")>>
                     ELSE IF length_above(dist, 1000)
                     THEN <<accelerate("1_000.0 * (target - position())")>>
                     ELSE <<>>)]
    ELSE [ship |-> ship,
          panic |-> FALSE,
          commands |-> tutorial_radar_lock(ship, FALSE)
                       \o tutorial_track_target(ship, FALSE, current_diff)]

(***************************************************************************)
(* ControlSpec follows a ship from Ship::new through any number of ticks   *)
(* and examines the tick that comes next: it keeps in `call` what the host *)
(* returned during that tick and the commands the tick issued.  The ticks  *)
(* examined are Fighter::tick, Missile::tick and the tutorial's            *)
(* Ship::tick.  The result of a tick is [commands, ship]: the commands     *)
(* issued and the ship the tick leaves.                                    *)
(***************************************************************************)
\* the plots the host of ControlSpec returns at most
ControlPlots == 2

\* positions of the ship nearer than 500 to the contacts, at 500 from the contact
\* at (0, 0), between 500 and 1000, at 1000 and beyond
ControlPositions == {V(0, 0), V(40, 0), V(500, 0), V(600, 0), V(1000, 0), V(2000, 0)}
HeadingErrors == {F(0), Rat(1, 10), Rat(-1, 10), Rat(1, 5), Rat(-3, 1)}

\* the tick calls angle_diff(heading(), ..) and compares time_to_stop with tti:
\* only engaging_target with a target does
steers(f) == f.state = "Engaged" /\ f.target # None

\* what angle_diff may return to the tick; one value stands for all on a tick
\* that does not call it
heading_errors(f) == IF steers(f) THEN HeadingErrors ELSE {F(0)}

\* time_to_stop < tti can hold: tti is the distance to the designated track over
\* the ship's speed, zero or NaN when the ship is at the track
can_keep_going(f, q, p) == f.target = None \/ q.tracks[f.target[1]].position # p

\* what time_to_stop < tti may be on the tick, r being what radar_loop leaves
keep_goings(f, r, point) ==
    IF steers(f) THEN {k \in BOOLEAN : k => can_keep_going(f, r, point)} ELSE {FALSE}

\* the commands of Fighter::tick after radar_loop, r being what radar_loop leaves:
\* those of ship_control (the designation that ends the tick issues none)
Fighter_control_commands(f, r, point, order, current_diff, keep_going) ==
    IF r.panic THEN <<>>
    ELSE ship_control(f, r, point, order, current_diff, keep_going)

\* the commands of Fighter::tick on a tick where scan() returns scan_result and
\* current_tick() returns tick: those of radar_loop, then those of ship_control.
\* r0 is the radar when the tick begins
Fighter_commands(f, r0, scan_result, tick, order, lock, point, closest_order, current_diff, keep_going) ==
    radar_loop_commands(update_tracks(r0), lock)
    \o Fighter_control_commands(f, radar_loop(r0, scan_result, tick, order, lock),
                                point, closest_order, current_diff, keep_going)

TutorialInputs ==
    {[fn |-> "tutorial Ship::tick", ship |-> s, scan_result |-> c, point |-> p,
      current_diff |-> e, result |-> None] :
        s \in {tutorial_Ship_new}
              \cup {tutorial_set_tracking(tutorial_Ship_new, TRUE, Some(a)).ship :
                       a \in ScanResults},
        c \in {None} \cup {Some(a) : a \in ScanResults},
        p \in ControlPositions, e \in HeadingErrors}

\* Ship::new of a Fighter or of a Missile, before its first tick, or the ship of
\* the tutorial before a tick
ControlInit ==
    \/ (ShipInit \/ MissileInit) /\ call = NoCall
    \/ ShipInit /\ call \in TutorialInputs

\* Fighter::tick, with what the host returned and the commands issued kept in
\* `call`: fighter is the Fighter when the tick begins, which ship_control reads,
\* and tracks the track objects radar_loop leaves
FighterControlTick ==
    /\ call = NoCall
    /\ current_tick < MaxTick
    /\ \E scan_result \in sensed_up_to(ControlPlots) :
       \E order \in association_orders(radar, scan_result) :
       \E lock \in lock_inputs(radar, ControlPositions) :
       \E r \in {radar_loop(entry, scan_result, current_tick, order, lock)} :
       \E point \in ControlPositions :
       \E closest_order \in IterationOrders(r.radar.potential_targets) :
         /\ Fighter_tick(r, scan_result, point, closest_order)
         /\ \E current_diff \in heading_errors(fighter) :
            \E keep_going \in keep_goings(fighter, r, point) :
               call' = [fn |-> "Fighter::tick",
                        fighter |-> fighter,
                        tracks |-> r.tracks,
                        point |-> point,
                        current_diff |-> current_diff,
                        keep_going |-> keep_going,
                        result |->
                           Some([commands |->
                                    Fighter_commands(fighter, entry, scan_result,
                                                     current_tick, order, lock,
                                                     point, closest_order,
                                                     current_diff, keep_going),
                                 ship |-> fighter'])]

\* the positions of a Missile: nearer than ExplodeDistance to a contact or not
MissilePositions == ShipPositions

\* Missile::tick, in the same way; position() and position_fixed() return point
MissileControlTick ==
    /\ call = NoCall
    /\ current_tick < MissileMaxTick
    /\ \E scan_result \in sensed_up_to(ControlPlots) :
       \E order \in association_orders(radar, scan_result) :
       \E lock \in lock_inputs(radar, MissilePositions) :
       \E r \in {radar_loop(entry, scan_result, current_tick, order, lock)} :
       \E point \in MissilePositions :
       \E fuel \in Fuels :
       \E closest_order \in IterationOrders(r.radar.potential_targets) :
         /\ Missile_tick(r, scan_result, point, fuel, closest_order)
         /\ call' = [fn |-> "Missile::tick",
                     missile |-> missile,
                     point |-> point,
                     fuel |-> fuel,
                     result |->
                        Some([commands |->
                                 Missile_commands(missile, entry, scan_result,
                                                  current_tick, order, lock, point,
                                                  fuel, closest_order),
                              ship |-> missile'])]

TutorialCall ==
    /\ call.fn = "tutorial Ship::tick"
    /\ call.result = None
    /\ \E r \in {tutorial_tick(call.ship, call.scan_result, call.point,
                                call.current_diff)} :
          /\ call' = [call EXCEPT !.result = Some(r)]
          /\ panicked' = r.panic
    /\ UNCHANGED <<ship_class, current_tick, radar, tracks, fighter, missile,
                   exploded, consult, assoc, last_match, created, nplots>>

\* the ticks before the one examined
ControlTick ==
    /\ call = NoCall
    /\ \E scan_result \in sensed_up_to(ControlPlots) :
       \E order \in association_orders(radar, scan_result) :
       \E lock \in lock_inputs(radar, ControlPositions) :
       \E r \in {radar_loop(entry, scan_result, current_tick, order, lock)} :
       \E closest_order \in IterationOrders(r.radar.potential_targets) :
          \/ /\ current_tick < MaxTick
             /\ \E point \in ControlPositions :
                   Fighter_tick(r, scan_result, point, closest_order)
          \/ /\ current_tick < MissileMaxTick
             /\ \E point \in MissilePositions :
                \E fuel \in Fuels :
                   Missile_tick(r, scan_result, point, fuel, closest_order)
    /\ UNCHANGED call

ControlNext == ControlTick \/ FighterControlTick \/ MissileControlTick \/ TutorialCall

ControlSpec == ControlInit /\ [][ControlNext]_vars

(***************************************************************************)
(* The claims.                                                             *)
(***************************************************************************)
\* the tick that has just run
last_tick == current_tick - 1

\* the number of ticks since track object k was created or last claimed a plot
ticks_since_match(k) == last_tick - last_match[k]

\* C1: point_in_gate(P) is true iff c.x - r/2 < P.x < c.x + r/2 and
\* c.y - r/2 < P.y < c.y + r/2, for every center c, side length r and point P;
\* a point on an edge or a corner is never in the gate.
C1_GateIsStrictInterior ==
    (call.fn = "point_in_gate" /\ call.result # None) =>
        LET c == call.gate.center
            half == FDiv(call.gate.radius, F(2))
            P == call.point
        IN  call.result[1] <=>
                /\ FLt(FSub(c.x, half), P.x) /\ FLt(P.x, FAdd(c.x, half))
                /\ FLt(FSub(c.y, half), P.y) /\ FLt(P.y, FAdd(c.y, half))

\* a point on the right edge of a gate of positive side, between its corners, was
\* tested and found outside
C1_Witness ==
    /\ call.fn = "point_in_gate"
    /\ call.result = Some(FALSE)
    /\ FLt(F(0), call.gate.radius)
    /\ call.point.x = FAdd(call.gate.center.x, FDiv(call.gate.radius, F(2)))
    /\ FLt(FSub(call.gate.center.y, FDiv(call.gate.radius, F(2))), call.point.y)
    /\ FLt(call.point.y, FAdd(call.gate.center.y, FDiv(call.gate.radius, F(2))))

\* C2: within one tick the sensed plot is pushed onto the queue of at most one
\* track, whatever the tracks and the order in which the map is visited.
C2_AtMostOneClaim == Len(assoc.claimed) <= 1

\* the gates of two tracks held the plot and one of them claimed it
C2_Witness ==
    /\ assoc.plot # None
    /\ Cardinality(assoc.in_gate) >= 2
    /\ Len(assoc.claimed) = 1

\* C3: a sensed plot is either claimed by exactly one existing track whose gate
\* holds it, or, when no gate holds it or the tracker is empty, spawns exactly one
\* new Tentative track with the plot's position and velocity; never both, never
\* neither.
C3_OneOutcomePerPlot ==
    assoc.plot # None =>
        /\ Len(assoc.claimed) + Len(assoc.spawned) = 1
        /\ assoc.in_gate # {} <=> Len(assoc.claimed) = 1
        /\ \A i \in 1..Len(assoc.claimed) : assoc.claimed[i] \in assoc.in_gate
        /\ \A i \in 1..Len(assoc.spawned) :
              LET id == assoc.spawned[i] IN
              /\ id \notin assoc.before
              /\ id \in radar.potential_targets
              /\ tracks[id].class = "Tentative"
              /\ tracks[id].position = assoc.plot[1].position
              /\ tracks[id].velocity = assoc.plot[1].velocity

\* a plot that no gate of a non-empty tracker held has spawned a track
C3_Witness ==
    /\ assoc.plot # None
    /\ assoc.before # {}
    /\ assoc.in_gate = {}
    /\ Len(assoc.spawned) = 1

\* C4: at the end of every tick, every track in the tracker was created or has
\* matched a plot fewer than 30 ticks ago.
C4_NoStaleTrackRetained ==
    \A k \in radar.potential_targets : ticks_since_match(k) < StaleTicks

\* C5: a track that matches no plot after its last contact stays in the tracker
\* through the next 29 ticks and is removed exactly on the 30th.
C5_EvictedExactlyAtThirty ==
    /\ \A old \in assoc.removed : last_tick - old.last_match = StaleTicks
    /\ \A k \in radar.potential_targets : ticks_since_match(k) <= StaleTicks - 1

\* C6: claiming a plot restarts a track's ticks-since-contact from zero, so no
\* track that has claimed a plot fewer than 30 ticks ago is removed.
C6_WindowRestartsOnClaim ==
    /\ \A k \in radar.potential_targets : tracks[k].contact_tick = last_match[k]
    /\ \A old \in assoc.removed : last_tick - old.last_match >= StaleTicks

\* C7: the ids new_id_gen returns are strictly increasing, so no two tracks ever
\* created share an id and the id of an evicted track is not given out again; every
\* key of the map is smaller than the id counter.
C7_IdsUniqueNeverReused ==
    /\ \A i, j \in 1..Len(created) : i < j => created[i] < created[j]
    /\ \A i \in 1..Len(created) : created[i] < radar.id_gen
    /\ \A k \in radar.potential_targets : k < radar.id_gen /\ k \in Range(created)
    /\ \A k \in DOMAIN tracks : tracks[k].id = k

\* a track was evicted and a new one created on the same tick
C7_Witness ==
    /\ assoc.removed # {}
    /\ assoc.spawned # <<>>
    /\ Len(created) >= 2

\* C8: update on a track with an empty queue moves the position by velocity / 60
\* per component and leaves the velocity as it was.
C8_CoastLaw ==
    (call.fn = "update" /\ call.result # None /\ call.track.scans = <<>>) =>
        LET t == call.track
            u == call.result[1]
        IN  /\ VMul(VSub(u.position, t.position), F(TicksPerSecond)) = t.velocity
            /\ u.velocity = t.velocity

\* a moving track with an empty queue was updated
C8_Witness ==
    /\ call.fn = "update"
    /\ call.result # None
    /\ call.track.scans = <<>>
    /\ call.track.velocity # V(0, 0)

\* C9: update on a track with one queued plot, with acceleration =
\* (velocity/60 - plot_velocity/60) / 2: the position grows by acceleration, the
\* velocity becomes (velocity/60 + acceleration) * 60 and the queue is left empty.
\* In closed form: 120 * (position' - position) = velocity - plot_velocity and
\* 2 * velocity' = 3 * velocity - plot_velocity.
C9_DifferencingFilter ==
    (call.fn = "update" /\ call.result # None /\ Len(call.track.scans) = 1) =>
        LET t == call.track
            u == call.result[1]
            plot_velocity == t.scans[1].scan.velocity
            acceleration == VSub(u.position, t.position)
        IN  /\ VMul(acceleration, F(2 * TicksPerSecond)) = VSub(t.velocity, plot_velocity)
            /\ VMul(u.velocity, F(2)) = VSub(VMul(t.velocity, F(3)), plot_velocity)
            /\ u.scans = <<>>

\* a track with one queued plot whose velocity differs from the track's was updated
C9_Witness ==
    /\ call.fn = "update"
    /\ call.result # None
    /\ Len(call.track.scans) = 1
    /\ call.track.scans[1].scan.velocity # call.track.velocity

\* C10: at every tick boundary the gate of every track, in the tracker or held
\* only by the designation, is centered on the track's position estimate.
C10_GateCenteredOnPosition ==
    \A k \in DOMAIN tracks : tracks[k].gate.center = tracks[k].position

\* a moving track has coasted in the tracker while another track, removed from the
\* tracker, is held by the designation alone
C10_Witness ==
    /\ \E k \in DOMAIN tracks : k \notin radar.potential_targets
    /\ \E k \in radar.potential_targets :
          /\ tracks[k].velocity # V(0, 0)
          /\ tracks[k].position \notin PlotPositions

\* C11: for every non-empty map and every point, get_closest_target_to_point returns
\* the id of a track of the map, and no other track of the map is closer to the point
C11_ClosestIsNearestTracked ==
    (/\ call.fn = "get_closest_target_to_point"
     /\ call.result # None
     /\ call.radar.potential_targets # {}) =>
        /\ call.result[1] \in call.radar.potential_targets
        /\ \A k \in call.radar.potential_targets \ {call.result[1]} :
              FLe(distance_from_sq(call.tracks[call.result[1]], call.point),
                  distance_from_sq(call.tracks[k], call.point))

\* C12: asked of an empty map, get_closest_target_to_point returns a value that is
\* no track id (a track id is a u128: any natural number)
C12_EmptyMapSignalsNoTarget ==
    (/\ call.fn = "get_closest_target_to_point"
     /\ call.result # None
     /\ call.radar.potential_targets = {}) =>
        call.result[1] \notin Nat

\* C13: get_track of an id the map does not hold fails without aborting the ship
C13_UnknownIdIsRecoverable ==
    (/\ call.fn = "get_track"
     /\ call.result # None
     /\ call.id \notin call.radar.potential_targets) =>
        ~panicked

\* C14: no tick of the Fighter or of the Missile panics
C14_NoPanic == ship_class \in {"Fighter", "Missile"} => ~panicked

\* the designation and the sticky counter of the ship
designation == IF ship_class = "Fighter" THEN fighter.target ELSE missile.target
sticky_counter ==
    IF ship_class = "Fighter" THEN fighter.sticky_target_ticks
    ELSE missile.sticky_target_ticks

\* C15: a tick replaces the designated track by another track only if the sticky
\* counter is zero when the tick begins
C15_ReplacedOnlyAtZero ==
    [][(designation # None /\ designation' # designation) => sticky_counter = 0]_vars

\* the tick that has just run began with the counter of the Fighter above zero,
\* spawned a track that is closer to a position of the ship than the designated
\* track, and left the designation as it was
C15_Witness ==
    /\ ship_class = "Fighter"
    /\ fighter.target # None
    /\ fighter.sticky_target_ticks = 0
    /\ assoc.spawned # <<>>
    /\ assoc.spawned[1] # fighter.target[1]
    /\ \E p \in ShipPositions :
          FLt(distance_from_sq(tracks[assoc.spawned[1]], p),
              distance_from_sq(tracks[fighter.target[1]], p))

\* C16: between two ticks on which the designation is taken from
\* get_closest_target_to_point, at least the sticky-tick count of the ship passes
C16_HeldForWindow ==
    consult.gap # None =>
        consult.gap[1] >= (IF ship_class = "Fighter" THEN STICKY_TARGET_TICKS
                           ELSE MISSILE_STICKY_TARGET_TICKS)

\* C17: at the end of every tick the designated track, if any, is in the map
C17_DesignatedTrackIsTracked ==
    fighter.target # None => fighter.target[1] \in radar.potential_targets

\* C18: the designated track object exists and is the track it was designated as,
\* whether or not the map still holds it
C18_DesignationOutlivesPruning ==
    fighter.target # None =>
        /\ fighter.target[1] \in DOMAIN tracks
        /\ tracks[fighter.target[1]].id = fighter.target[1]

\* the designated track has been removed from the map and can still be read
C18_Witness ==
    /\ fighter.target # None
    /\ fighter.target[1] \notin radar.potential_targets
    /\ fighter.target[1] \in DOMAIN tracks
    /\ tracks[fighter.target[1]].position \in PlotPositions

\* C19: at the end of every tick of the Fighter with a track in the map, the state
\* is Engaged
C19_EngagedWhileTracking ==
    (ship_class = "Fighter" /\ current_tick > 0 /\ has_contacts(radar)) =>
        fighter.state = "Engaged"

\* the tick that has just run began with an empty map in state NoTarget and
\* spawned the first track
C19_Witness ==
    /\ ship_class = "Fighter"
    /\ assoc.before = {}
    /\ assoc.spawned # <<>>
    /\ fighter.state = "Engaged"

\* the number of ticks that have run since the last tick with a plot
ticks_without_plot ==
    IF DOMAIN last_match = {} THEN current_tick
    ELSE last_tick - (CHOOSE t \in {last_match[k] : k \in DOMAIN last_match} :
                         \A k \in DOMAIN last_match : last_match[k] <= t)

\* C20: after more than ContactRecencyTicks ticks without a plot the state is
\* OutOfRadarRange
C20_OutOfRadarRangeAfterSilence ==
    ticks_without_plot > ContactRecencyTicks => fighter.state = "OutOfRadarRange"

(***************************************************************************)
(* The states of the Fighter that ticks connect.  A tick reads the state   *)
(* in ship_control, which never writes it, and writes it in the            *)
(* designation that ends the tick.                                         *)
(***************************************************************************)
ShipState == {"NoTarget", "Searching", "Engaged", "OutOfTargetRange", "OutOfRadarRange"}

\* the Fighters in state st over the tracks of q: with either value of the
\* counter, without a target or with one
fighters_in(st, q) ==
    {[Fighter_new EXCEPT !.state = st, !.sticky_target_ticks = k, !.target = t] :
        k \in 0..STICKY_TARGET_TICKS,
        t \in {None} \cup {Some(id) : id \in DOMAIN q.tracks}}

\* the states one Fighter::tick may leave a Fighter of state st in, whatever
\* radar_loop has left in the tracker (no track, one or two) and wherever the
\* ship is; a tick that panics leaves none
states_after_tick(st) ==
    UNION {{d.fighter.state :
              d \in {c \in {control_and_designate(f, q, p, o) :
                               f \in fighters_in(st, q), p \in ShipPositions,
                               o \in IterationOrders(q.radar.potential_targets)} :
                        ~c.panic}} :
           q \in QueryRadars}

\* the states some sequence of ticks leads to from one of the states of S
RECURSIVE states_after_ticks(_)
states_after_ticks(S) ==
    IF UNION {states_after_tick(st) : st \in S} \subseteq S THEN S
    ELSE states_after_ticks(S \cup UNION {states_after_tick(st) : st \in S})

\* C21: from each of the states NoTarget, Engaged, OutOfTargetRange and
\* OutOfRadarRange some sequence of ticks and sensor inputs leads the Fighter to
\* the state Searching
C21_ReturnsToSearching ==
    fighter.state \in {"NoTarget", "Engaged", "OutOfTargetRange", "OutOfRadarRange"}
        => "Searching" \in states_after_ticks({fighter.state})

\* no tick sets the state Searching: the claim's sequence of ticks does not exist
NeverSearching == fighter.state # "Searching"

\* C29: update_tracks finds at most one plot queued in every track, the update of
\* a track that claims a plot finds exactly that plot, and every tick ends with
\* at most one plot queued in every track
C29_AtMostOnePlotQueued ==
    [][ /\ \A k \in radar.potential_targets : Len(tracks[k].scans) <= 1
        /\ \A i \in 1..Len(assoc'.claimed) :
              Len(push_plot(update(tracks[assoc'.claimed[i]]),
                            TimedScanResult(assoc'.plot[1], current_tick)).scans) <= 1
        /\ \A k \in DOMAIN tracks' : Len(tracks'[k].scans) <= 1 ]_vars

\* the tick that has just run spawned no track and a track claimed its plot while
\* another track was in the map
C29_Witness ==
    /\ assoc.claimed # <<>>
    /\ Cardinality(assoc.before) >= 2
    /\ \A k \in DOMAIN tracks : Len(tracks[k].scans) = 0

\* a tick has just spawned a track, whose plot is still queued
C29_QueuedWitness ==
    /\ assoc.spawned # <<>>
    /\ \E k \in DOMAIN tracks : Len(tracks[k].scans) = 1

\* C30: a track that a tick does not update with a plot ends the tick one coast
\* step from where it began it (its position when the plot is tested against the
\* gates is its position at the end of the tick)
C30_CoastedBeforeGating ==
    [][ \A k \in radar.potential_targets \cap radar'.potential_targets :
           k \notin Range(assoc'.claimed) =>
              tracks'[k].position =
                 VAdd(tracks[k].position, VDiv(tracks[k].velocity, F(TicksPerSecond))) ]_vars

\* the call under examination has returned from fn
returned(fn) == call.fn = fn /\ call.result # None

\* the integer k that the coefficient x of SolverInputs is
coefficient(x) == CHOOSE k \in -CoefficientBC..CoefficientBC : D(k) = x

\* the equation a*t^2 + b*t + c = 0 has rational roots: its discriminant is the
\* square of an integer (for a = 0 it is b * b)
rational_roots(a, b, c) ==
    /\ b * b - 4 * a * c >= 0
    /\ ISqrt(b * b - 4 * a * c) * ISqrt(b * b - 4 * a * c) = b * b - 4 * a * c

\* the f64 nearest each root t > 0 of a*t^2 + b*t + c = 0, an equation with
\* rational roots: (-b + s) / 2a and (-b - s) / 2a for a # 0, -c / b for a = 0
positive_roots(a, b, c) ==
    LET s == ISqrt(b * b - 4 * a * c)
    IN  IF a # 0 THEN {DRat(n, 2 * a) : n \in {m \in {-b + s, -b - s} : m * a > 0}}
        ELSE IF b # 0 /\ -c * b > 0 THEN {DRat(-c, b)}
        ELSE {}

\* the number of roots t > 0 of a*t^2 + b*t + c = 0, an equation with a # 0 and
\* two irrational roots: one when the roots differ in sign, two when both are
\* above zero
count_positive_roots(a, b, c) ==
    IF a * c < 0 THEN 1 ELSE IF a * b < 0 THEN 2 ELSE 0

\* a root of a*t^2 + b*t + c = 0 lies within t / 2^20 of t: the polynomial is not
\* of one sign at both ends of that interval
near_root(a, b, c, t) ==
    LET p(x) == DAdd(DAdd(DMul(D(a), DMul(x, x)), DMul(D(b), x)), D(c))
        lo == p(DMul(t, DRat(2^20 - 1, 2^20)))
        hi == p(DMul(t, DRat(2^20 + 1, 2^20)))
    IN  /\ ~(DGt(lo, D(0)) /\ DGt(hi, D(0)))
        /\ ~(DLt(lo, D(0)) /\ DLt(hi, D(0)))

\* C22: get_smallest_quadratic_solution returns -1 when the discriminant is
\* negative and when no root is above zero, and otherwise the smallest root above
\* zero: its result is -1 or a root t > 0 of a*t^2 + b*t + c = 0 (the f64 nearest
\* it when the roots are rational, and within t / 2^20 of it, below the other
\* root, when they are not)
C22_RootPolicy ==
    returned("get_smallest_quadratic_solution") =>
        LET a == coefficient(call.a)
            b == coefficient(call.b)
            c == coefficient(call.c)
            t == call.result[1]
        IN  IF b * b - 4 * a * c < 0 THEN t = D(-1)
            ELSE IF rational_roots(a, b, c)
            THEN LET roots == positive_roots(a, b, c)
                 IN  /\ roots # {} => t \in roots /\ \A r \in roots : DLe(t, r)
                     /\ roots = {} => t = D(-1)
            ELSE /\ count_positive_roots(a, b, c) = 0 => t = D(-1)
                 /\ count_positive_roots(a, b, c) > 0 =>
                       DGt(t, D(0)) /\ near_root(a, b, c, t)
                 /\ count_positive_roots(a, b, c) = 2 => DLt(t, DRat(-b, 2 * a))

\* what C22 says, of the equations that are quadratic
C22_QuadraticOnly == call.fn = "get_smallest_quadratic_solution" /\ call.a # D(0) => C22_RootPolicy

\* C23: when the solver's answer is not above zero, quadratic_lead (of ship.rs and
\* of tutorial.rs) returns the linear lead point, which is neither the shooter's
\* position nor the target's
C23_FallsBackToLinearLead ==
    ((returned("quadratic_lead") \/ returned("tutorial quadratic_lead"))
        /\ DLe(call.result[1].t, D(0))) =>
        /\ call.result[1].point =
              get_target_lead_in_ticks(call.target_position, call.target_velocity,
                                       call.position, call.velocity)
        /\ call.result[1].point # call.position
        /\ call.result[1].point # call.target_position

\* C24: for a target at rest at (1000, 0) from the shooter the solver answers
\* t = 1 and quadratic_lead returns (1000, 0)
C24_SolverExactness ==
    (returned("quadratic_lead") /\ call.target_position = DV(1000, 0)
        /\ call.target_velocity = DV(0, 0)) =>
        /\ call.result[1].t = D(1)
        /\ call.result[1].point = DV(1000, 0)

\* quadratic_lead has returned for the target at rest at (1000, 0)
C24_Witness ==
    /\ returned("quadratic_lead")
    /\ call.target_position = DV(1000, 0)
    /\ call.target_velocity = DV(0, 0)
    /\ call.result[1].t = D(1)

\* C25: the iterative approximation (of ship.rs and of tutorial.rs) makes at most
\* 20 passes, and leaves its loop by `break` only when t and old_t differ by less
\* than E in magnitude
C25_ApproximationBounded ==
    (returned("iterative_approximation_gun") \/ returned("Ship::iterative_approximation")) =>
        LET l == call.result[1].loop
        IN  /\ l.passes <= 20
            /\ l.broke => lt_E(DAbs(DSub(l.t, l.old_t)))

\* the rationals q >= 0 whose squares are among the gains
GainRoots == {D(0), D(1), D(2), DRat(3, 2)}

\* C26: calculate_angular_velocity(k, e) is k*e - 2*sqrt(k)*w; it is 10 for
\* k = 50, e = 0.2, w = 0, and 0 for e = 0, w = 0
C26_TurnController ==
    returned("calculate_angular_velocity") =>
        LET k == call.tune_factor
            e == call.angle_to_mark
            w == call.angular_velocity
        IN  /\ \A q \in GainRoots :
                  DMul(q, q) = k =>
                     call.result[1] = DSub(DMul(k, e), DMul(DMul(D(2), q), w))
            /\ (k = D(50) /\ e = DRat(1, 5) /\ w = D(0)) => call.result[1] = D(10)
            /\ (e = D(0) /\ w = D(0)) => call.result[1] = D(0)

\* the controller has returned 10 for k = 50, e = 0.2, w = 0
C26_Witness ==
    /\ returned("calculate_angular_velocity")
    /\ call.tune_factor = D(50)
    /\ call.angle_to_mark = DRat(1, 5)
    /\ call.angular_velocity = D(0)
    /\ call.result[1] = D(10)

\* the number of commands cmd among the commands of the tick
issued(commands, cmd) == Cardinality({i \in 1..Len(commands) : commands[i].cmd = cmd})

\* C27: the Fighter fires a weapon only on a tick whose heading error is at most
\* 0.1 in magnitude, and weapon 0 only with the designated track nearer than 1000
C27_FireGatedOnAim ==
    returned("Fighter::tick") =>
        \A i \in 1..Len(call.result[1].commands) :
           call.result[1].commands[i].cmd = "fire" =>
              /\ ~off_aim(call.current_diff)
              /\ call.result[1].commands[i].index = 0 =>
                    length_below(VSub(call.tracks[call.fighter.target[1]].position,
                                      call.point), 1000)

\* what C27 says, of weapon 0
C27_GunGatedOnAim ==
    returned("Fighter::tick") =>
        \A i \in 1..Len(call.result[1].commands) :
           (call.result[1].commands[i].cmd = "fire" /\ call.result[1].commands[i].index = 0) =>
              /\ ~off_aim(call.current_diff)
              /\ length_below(VSub(call.tracks[call.fighter.target[1]].position,
                                   call.point), 1000)

\* C28: a tick of the Fighter, of the Missile or of the tutorial's Ship issues at
\* most one accelerate, at most one torque and at most one turn
C28_OneCommandPerAxis ==
    (returned("Fighter::tick") \/ returned("Missile::tick")
        \/ returned("tutorial Ship::tick")) =>
        \A cmd \in {"accelerate", "torque", "turn"} : issued(call.result[1].commands, cmd) <= 1

\* a tick of the Fighter farther than 1000 from its target has issued an
\* accelerate and a torque
C28_Witness ==
    /\ returned("Fighter::tick")
    /\ issued(call.result[1].commands, "accelerate") = 1
    /\ issued(call.result[1].commands, "torque") = 1
    /\ call.point = V(2000, 0)

\* a tick of a Fighter whose designated track has left the tracker has issued
\* an accelerate and a torque
C28_PrunedWitness ==
    /\ returned("Fighter::tick")
    /\ call.fighter.target # None
    /\ call.fighter.target[1] \notin radar.potential_targets
    /\ issued(call.result[1].commands, "accelerate") = 1
    /\ issued(call.result[1].commands, "torque") = 1

\* a tick of a Missile that began with a target and its counter running has
\* issued the four settings of the radar, an accelerate and a turn
C28_MissileWitness ==
    /\ returned("Missile::tick")
    /\ call.missile.target # None
    /\ call.missile.sticky_target_ticks \in 1..(MISSILE_STICKY_TARGET_TICKS - 1)
    /\ issued(call.result[1].commands, "set_radar") = 4
    /\ issued(call.result[1].commands, "accelerate") = 1
    /\ issued(call.result[1].commands, "turn") = 1

\* a tick of a Missile whose counter has run out has taken the closest track and
\* issued an accelerate and a turn
C28_MissileClosestWitness ==
    /\ returned("Missile::tick")
    /\ call.missile.sticky_target_ticks = 0
    /\ consult.last = Some(current_tick - 1)
    /\ issued(call.result[1].commands, "accelerate") = 1
    /\ issued(call.result[1].commands, "turn") = 1

\* a tick of the tutorial's Ship has issued a torque and an accelerate
C28_TutorialWitness ==
    /\ returned("tutorial Ship::tick")
    /\ issued(call.result[1].commands, "accelerate") = 1
    /\ issued(call.result[1].commands, "torque") = 1

\* C31: a tick updates every track of the tracker exactly once: a track that claims
\* the tick's plot by the differencing rule alone, a track with an empty queue
\* that claims none by one coast step alone (the tick after a track's creation,
\* which finds the spawning plot queued, is C30's)
C31_UpdatedOncePerTick ==
    [][ \A k \in radar.potential_targets \cap radar'.potential_targets :
           LET once ==
                 IF k \in Range(assoc'.claimed)
                 THEN update_one_scan(
                          [tracks[k] EXCEPT
                              !.scans = <<TimedScanResult(assoc'.plot[1], current_tick)>>])
                 ELSE update_coast(tracks[k])
           IN  (k \in Range(assoc'.claimed) \/ tracks[k].scans = <<>>) =>
                  /\ tracks'[k].position = once.position
                  /\ tracks'[k].velocity = once.velocity ]_vars

\* C32: at the end of every tick on which a plot was processed, no track that was
\* in the tracker when the tick began and has gone 30 ticks or more without
\* contact is left in it, wherever the map's order puts it relative to the track
\* that claimed the plot
C32_StaleRemovedInAnyOrder ==
    assoc.plot # None =>
        \A k \in assoc.before \cap radar.potential_targets :
            ticks_since_match(k) < StaleTicks

\* C33: the configuration the sensor gets once the Fighter has become Engaged has
\* a narrower beam and a closer range window than the one it had before, and in
\* state OutOfRadarRange the sensor has the range window of the long range sweep
C33_SweepFollowsState ==
    [][ /\ (fighter.state # "Engaged" /\ fighter'.state = "Engaged") =>
              /\ FLt(sweep(radar', tracks', None).width, sweep(radar, tracks, None).width)
              /\ sweep(radar', tracks', None).max_distance[1]
                    < sweep(radar, tracks, None).max_distance[1]
        /\ fighter'.state = "OutOfRadarRange" =>
              sweep(radar', tracks', None).max_distance =
                 sweep([radar' EXCEPT !.state = "LongRange"], tracks', None).max_distance
      ]_vars

\* C34: a tick that begins with a track in the tracker ends with a track in the
\* tracker
C34_NeverEmptyAgain ==
    [][has_contacts(radar) => has_contacts(radar')]_vars

\* the tick that has just run removed every track the tracker held when it began
C34_Witness ==
    /\ assoc.before # {}
    /\ {old.id : old \in assoc.removed} = assoc.before
    /\ has_contacts(radar)

\* C35: contact_tick is the tick a track was created on and is never written again,
\* and a tick removes a track from the tracker only when 30 ticks or more have
\* passed since the track was created
C35_NoEarlyRemoval ==
    [][ /\ \A i \in 1..Len(assoc'.spawned) :
              tracks'[assoc'.spawned[i]].contact_tick = current_tick
        /\ \A k \in DOMAIN tracks \cap DOMAIN tracks' :
              tracks'[k].contact_tick = tracks[k].contact_tick
        /\ \A k \in radar.potential_targets \ radar'.potential_targets :
              current_tick - tracks[k].contact_tick >= StaleTicks ]_vars

\* a track created on tick 0 was removed on tick 30, the first tick that may
\* remove it, while a younger track stayed
C35_Witness ==
    /\ last_tick = StaleTicks
    /\ \E old \in assoc.removed : old.id = created[1]
    /\ \E k \in assoc.before \cap radar.potential_targets :
          last_tick - tracks[k].contact_tick = StaleTicks - 1

\* C36: a tick on which scan() returns no plot leaves the key set of the map and
\* the id counter as they were
C36_NoPlotNoLifecycle ==
    [][ assoc'.plot = None =>
           /\ radar'.potential_targets = radar.potential_targets
           /\ radar'.id_gen = radar.id_gen ]_vars

\* a tick without a plot has just run and left a track in the tracker that was
\* created 30 ticks or more ago
C36_Witness ==
    /\ assoc.plot = None
    /\ \E k \in radar.potential_targets :
          last_tick - tracks[k].contact_tick >= StaleTicks

\* C37: a track object that the map does not hold when a tick begins and that
\* the designation holds when the tick ends is left by the tick as it was:
\* position, velocity, gate and every other field
C37_PrunedDesignationFrozen ==
    [][ \A k \in (DOMAIN tracks \cap DOMAIN tracks') \ radar.potential_targets :
           tracks'[k] = tracks[k] ]_vars

\* a moving track was removed from the map on an earlier tick and is still the
\* designated target, while the map holds another track
C37_Witness ==
    /\ designation # None
    /\ designation[1] \notin radar.potential_targets
    /\ designation[1] \notin {old.id : old \in assoc.removed}
    /\ tracks[designation[1]].velocity # V(0, 0)
    /\ has_contacts(radar)

\* C38: the position and the velocity a track has after the tick on which it
\* claimed a plot are given by its position p, velocity v and queue when the tick
\* began and by the velocity w the plot reports: with a = (v/60 - w/60) / 2, the
\* velocity is (v/60 + a) * 60 and the position is p + a, after one coast step
\* when the queue was empty
C38_PlotPositionOnlyGates ==
    [][ \A i \in 1..Len(assoc'.claimed) :
           LET k == assoc'.claimed[i]
               p == tracks[k].position
               v == VDiv(tracks[k].velocity, F(TicksPerSecond))
               w == VDiv(assoc'.plot[1].velocity, F(TicksPerSecond))
               a == VDiv(VSub(v, w), F(2))
           IN  /\ tracks'[k].velocity = VMul(VAdd(v, a), F(TicksPerSecond))
               /\ tracks'[k].position =
                     VAdd(IF tracks[k].scans = <<>> THEN VAdd(p, v) ELSE p, a) ]_vars

\* a track has just claimed a plot reported away from the origin, with another
\* velocity than the track has now, and is at none of the positions plots report
C38_Witness ==
    /\ assoc.claimed # <<>>
    /\ tracks[assoc.claimed[1]].velocity # assoc.plot[1].velocity
    /\ \A p \in PlotPositions :
          tracks[assoc.claimed[1]].position # p
    /\ assoc.plot[1].position # V(0, 0)

=============================================================================
